---- MODULE Spec2Model ----
(***************************************************************************)
(* A model of toysqleval: the evaluator (package eval) run statement by    *)
(* statement against one Environment, as the drivers do.                   *)
(*                                                                         *)
(* Representation.                                                         *)
(*  - A Value is a record tagged by t; the nil interface value (SQL null)  *)
(*    is Null.                                                             *)
(*  - An int64 is an integer of IntBits bits (two's complement); a float64 *)
(*    is an exact multiple of 1/2, stored as its number of halves, so that *)
(*    float64(n) is 2*n and int64(f) truncates toward zero.                *)
(*  - A Go panic is a record with a field "panic"; isError tells whether   *)
(*    the panic value implements the error interface.  Every operator that *)
(*    can panic returns either its result or the panic, and every caller   *)
(*    passes a panic on, as unwinding does.                                *)
(***************************************************************************)
EXTENDS Integers, Sequences, FiniteSets, TLC

\* Width of the modelled int64.
IntBits == 8

\* Largest number of rows a table is grown to.
MaxRows == 2

MaxInt64 == 2^(IntBits - 1) - 1
MinInt64 == -(2^(IntBits - 1))

\* int64 arithmetic wraps around.
WrapInt64(n) == ((n - MinInt64) % (2^IntBits)) + MinInt64

-----------------------------------------------------------------------------
(* token.Pos and errors *)

Pos(line, column) == [Line |-> line, Column |-> column]

\* The zero token.Pos.
NoPos == Pos(0, 0)

\* A panic whose value is an error built by fmt.Errorf (no position).
PanicErrorf(msg, args) ==
    [panic |-> TRUE, isError |-> TRUE, Msg |-> msg, Args |-> args, Pos |-> NoPos]

\* A panic whose value is a plain string.
PanicString(msg, args) ==
    [panic |-> TRUE, isError |-> FALSE, Msg |-> msg, Args |-> args, Pos |-> NoPos]

\* A panic raised by the Go runtime: a runtime.Error, which is an error.
PanicNilDeref ==
    [panic |-> TRUE, isError |-> TRUE,
     Msg |-> "runtime error: invalid memory address or nil pointer dereference",
     Args |-> <<>>, Pos |-> NoPos]

IsPanic(x) == "panic" \in DOMAIN x

\* With([x \in {v} |-> e]) is e with x standing for v; v is computed once,
\* where an assignment x := v of the code computes it.
With(binding) == binding[CHOOSE d \in DOMAIN binding : TRUE]

-----------------------------------------------------------------------------
(* Values *)

Null == [t |-> "nil"]
BooleanValue(b) == [t |-> "Boolean", b |-> b]
IntegerValue(i) == [t |-> "Integer", i |-> i]
NumberValue(f) == [t |-> "Number", f |-> f]
StringValue(s) == [t |-> "String", s |-> s]
TimestampValue(ts) == [t |-> "Timestamp", ts |-> ts]

IsNull(v) == v.t = "nil"

\* float64(n) for an int64 n.
Float64(n) == 2 * n

\* int64(f) for a float64 f: the fraction is dropped (truncation toward zero).
Int64OfFloat(f) == IF f >= 0 THEN f \div 2 ELSE -((-f) \div 2)

\* The decimal texts the model knows, for 0, 1, 2, ...
DecimalText == <<"0", "1", "2", "3", "4", "5", "6", "7", "8", "9", "10">>

\* fmt.Sprintf("%d", n).
FormatInt(n) ==
    IF n >= 0 /\ n < Len(DecimalText) THEN DecimalText[n + 1]
    ELSE IF n = -1 THEN "-1"
    ELSE IF n = -2 THEN "-2"
    ELSE "<int>"

\* fmt.Sprintf("%v", f) for a float64 f.
FormatFloat(f) ==
    IF f % 2 = 0 THEN FormatInt(f \div 2)
    ELSE IF f = 1 THEN "0.5"
    ELSE IF f = 3 THEN "1.5"
    ELSE IF f = 5 THEN "2.5"
    ELSE IF f = -3 THEN "-1.5"
    ELSE "<float>"

\* strconv.ParseInt(s, 10, 64): whether it succeeds, and its value.
ParseIntOk(s) ==
    \/ \E n \in 0..(Len(DecimalText) - 1) : DecimalText[n + 1] = s
    \/ s \in {"-1", "-2"}

ParseInt(s) ==
    IF s = "-1" THEN -1
    ELSE IF s = "-2" THEN -2
    ELSE CHOOSE n \in 0..(Len(DecimalText) - 1) : DecimalText[n + 1] = s

\* strconv.ParseFloat(s, 64): whether it succeeds, and its value.
ParseFloatOk(s) == ParseIntOk(s) \/ s \in {"0.5", "1.5", "2.5", "-1.5"}

ParseFloat(s) ==
    IF ParseIntOk(s) THEN Float64(ParseInt(s))
    ELSE IF s = "0.5" THEN 1
    ELSE IF s = "1.5" THEN 3
    ELSE IF s = "2.5" THEN 5
    ELSE -3

\* time.Parse over timeLayouts: whether a layout matches, and the instant.
\* Two texts of one instant in two of the layouts, and a later instant.
ParseTimeOk(s) ==
    s \in {"2006-01-02 15:04:05 UTC", "2006-01-02T15:04:05Z", "2006-01-02T15:04:06Z"}

ParseTime(s) == IF s = "2006-01-02T15:04:06Z" THEN 2 ELSE 1

\* time.Time.Format(time.RFC3339).
FormatTime(ts) ==
    IF ts = 1 THEN "2006-01-02T15:04:05Z"
    ELSE IF ts = 2 THEN "2006-01-02T15:04:06Z"
    ELSE "<time>"

(* The type cast operators of Value.  Calling a method of the nil interface
   value is a nil dereference. *)

toBoolean(v) ==
    CASE v.t = "nil" -> PanicNilDeref
      [] v.t = "Boolean" -> v
      [] v.t = "Integer" -> PanicString("cannot convert Integer to Boolean", <<>>)
      [] v.t = "Number" -> PanicString("cannot convert Number to Boolean", <<>>)
      [] v.t = "String" -> PanicString("cannot convert String to Boolean", <<>>)
      [] v.t = "Timestamp" -> PanicString("cannot convert Timestamp to Boolean", <<>>)

toInteger(v) ==
    CASE v.t = "nil" -> PanicNilDeref
      [] v.t = "Boolean" -> PanicString("cannot convert Boolean to Integer", <<>>)
      [] v.t = "Integer" -> v
      [] v.t = "Number" -> IntegerValue(Int64OfFloat(v.f))
      [] v.t = "String" ->
            IF ~ParseIntOk(v.s)
            THEN PanicErrorf("strconv.ParseInt: parsing %q: invalid syntax", <<v.s>>)
            ELSE IntegerValue(ParseInt(v.s))
      [] v.t = "Timestamp" -> PanicString("cannot convert Timestamp to Integer", <<>>)

toNumber(v) ==
    CASE v.t = "nil" -> PanicNilDeref
      [] v.t = "Boolean" -> PanicString("cannot convert Boolean to Number", <<>>)
      [] v.t = "Integer" -> NumberValue(Float64(v.i))
      [] v.t = "Number" -> v
      [] v.t = "String" ->
            IF ~ParseFloatOk(v.s)
            THEN PanicErrorf("strconv.ParseFloat: parsing %q: invalid syntax", <<v.s>>)
            ELSE NumberValue(ParseFloat(v.s))
      [] v.t = "Timestamp" -> PanicString("cannot convert Timestamp to Number", <<>>)

toString(v) ==
    CASE v.t = "nil" -> PanicNilDeref
      [] v.t = "Boolean" -> PanicString("cannot convert Boolean to String", <<>>)
      [] v.t = "Integer" -> StringValue(FormatInt(v.i))
      [] v.t = "Number" -> StringValue(FormatFloat(v.f))
      [] v.t = "String" -> v
      [] v.t = "Timestamp" -> StringValue(FormatTime(v.ts))

toTimestamp(v) ==
    CASE v.t = "nil" -> PanicNilDeref
      [] v.t = "Boolean" -> PanicString("cannot convert Boolean to Timestamp", <<>>)
      [] v.t = "Integer" -> PanicString("cannot convert Integer to Timestamp", <<>>)
      [] v.t = "Number" -> PanicString("cannot convert Number to Timestamp", <<>>)
      [] v.t = "String" ->
            IF ~ParseTimeOk(v.s)
            THEN PanicString("invalid timestamp: %s", <<v.s>>)
            ELSE TimestampValue(ParseTime(v.s))
      [] v.t = "Timestamp" -> v

\* BooleanValue.toInt.
toInt(v) == IF v.b THEN 1 ELSE 0

coerce(v, t) ==
    CASE t = "Boolean" -> toBoolean(v)
      [] t = "Integer" -> toInteger(v)
      [] t = "Number" -> toNumber(v)
      [] t = "String" -> toString(v)
      [] t = "Timestamp" -> toTimestamp(v)
      [] OTHER -> PanicErrorf("invalid data type: %s", <<t>>)

-----------------------------------------------------------------------------
(* AST nodes (package ast).  k names the node's Go type. *)

Ident(name) == [k |-> "Ident", NamePos |-> Pos(1, 0), Name |-> name]
IdentAt(pos, name) == [k |-> "Ident", NamePos |-> pos, Name |-> name]
IntegerLiteral(n) == [k |-> "IntegerLiteral", ValuePos |-> Pos(1, 0), Value |-> n]
NumberLiteral(f) == [k |-> "NumberLiteral", ValuePos |-> Pos(1, 0), Value |-> f]
StringLiteral(s) == [k |-> "StringLiteral", ValuePos |-> Pos(1, 0), Value |-> s]
BooleanLiteral(b) == [k |-> "BooleanLiteral", ValuePos |-> Pos(1, 0), Value |-> b]
NullLiteral == [k |-> "Null", ValuePos |-> Pos(1, 0)]
BinaryExpr(lhs, op, rhs) == [k |-> "BinaryExpr", Lhs |-> lhs, Op |-> op, Rhs |-> rhs]
UnaryExpr(op, e) == [k |-> "UnaryExpr", StartPos |-> Pos(1, 0), Op |-> op, Expr |-> e]
\* The parser never sets the position of a "*".
SelectStarExpr == [k |-> "SelectStarExpr", StartPos |-> NoPos]
FunctionCall(name, args) == [k |-> "FunctionCall", Name |-> Ident(name), Args |-> args]

ColumnDefinition(name, type, nullable) ==
    [k |-> "ColumnDefinition", Name |-> Ident(name), Type |-> type, Nullable |-> nullable]
CreateTableStmt(table, columns) ==
    [k |-> "CreateTableStmt", StartPos |-> Pos(1, 0), Table |-> Ident(table),
     Columns |-> columns]
\* Where is NoExpr when the statement has no WHERE clause (a nil ast.Expr).
NoExpr == [k |-> "nil"]
SelectStmt(columns, table, where) ==
    [k |-> "SelectStmt", StartPos |-> Pos(1, 0), Columns |-> columns,
     Table |-> Ident(table), Where |-> where]
InsertStmt(table, columns, values) ==
    [k |-> "InsertStmt", StartPos |-> Pos(1, 0), Table |-> Ident(table),
     Columns |-> columns, Values |-> values]
UpdateStmt(table, columns, values, where) ==
    [k |-> "UpdateStmt", StartPos |-> Pos(1, 0), Table |-> Ident(table),
     Columns |-> columns, Values |-> values, Where |-> where]
DeleteStmt(table, where) ==
    [k |-> "DeleteStmt", StartPos |-> Pos(1, 0), Table |-> Ident(table), Where |-> where]

\* An aggFunc node: a pointer to the accumulator funcs[ref] of the rewriter.
AggFuncNode(ref, pos) == [k |-> "aggFunc", ref |-> ref, StartPos |-> pos]

\* Node.Pos().
RECURSIVE NodePos(_)
NodePos(n) ==
    CASE n.k = "Ident" -> n.NamePos
      [] n.k \in {"IntegerLiteral", "NumberLiteral", "StringLiteral",
                  "BooleanLiteral", "Null"} -> n.ValuePos
      [] n.k = "BinaryExpr" -> NodePos(n.Lhs)
      [] n.k = "FunctionCall" -> n.Name.NamePos
      [] n.k = "ColumnDefinition" -> n.Name.NamePos
      [] OTHER -> n.StartPos

\* errorf(node, format, args...): an *eval.Error positioned at the node.
errorf(node, msg, args) ==
    [panic |-> TRUE, isError |-> TRUE, Msg |-> msg, Args |-> args, Pos |-> NodePos(node)]

-----------------------------------------------------------------------------
(* Tables *)

Column(name, type, nullable) ==
    [Name |-> name, Type |-> type, Default |-> Null, Nullable |-> nullable,
     AutoInc |-> FALSE, NextVal |-> 0]

\* Table.colIndex, with 0 for Go's -1 (sequences are 1-based here).
colIndex(t, name) ==
    IF \E i \in 1..Len(t.Columns) : t.Columns[i].Name = name
    THEN CHOOSE i \in 1..Len(t.Columns) :
            /\ t.Columns[i].Name = name
            /\ \A j \in 1..(i - 1) : t.Columns[j].Name # name
    ELSE 0

\* The zero DataType, which names no type.
InvalidDataType == "InvalidDataType"

\* [dt |-> the DataType], or the panic.
dataTypeFromToken(tok) ==
    CASE tok = "Boolean" -> [dt |-> "Boolean"]
      [] tok = "Integer" -> [dt |-> "Integer"]
      [] tok = "Number" -> [dt |-> "Number"]
      [] tok = "Varchar" -> [dt |-> "String"]
      [] tok = "Timestamp" -> [dt |-> "Timestamp"]
      [] OTHER -> PanicString("internal error: %q does not refer to a valid data type", <<tok>>)

-----------------------------------------------------------------------------
(* Namespaces *)

emptyNamespace == [kind |-> "emptyNamespace"]
currentRow(table, row) == [kind |-> "currentRow", table |-> table, row |-> row]

lookup(ns, name) ==
    IF ns.kind = "currentRow" /\ colIndex(ns.table, name) > 0
    THEN ns.row[colIndex(ns.table, name)]
    ELSE PanicErrorf("column %q does not exist", <<name>>)

-----------------------------------------------------------------------------
(* Operators on values *)

\* The strings of the model in Go's string order (byte-wise).
StringOrder ==
    <<"", "-1", "-1.5", "-2", "0", "0.5", "1", "1.5", "10", "2", "2.5",
      "2006-01-02 15:04:05 UTC", "2006-01-02T15:04:05Z", "2006-01-02T15:04:06Z",
      "3", "4", "5", "6", "7", "8", "9", "x", "y">>

StringRank(s) == CHOOSE i \in 1..Len(StringOrder) : StringOrder[i] = s

\* The six comparisons, given whether a < b and whether a = b.  The bool a
\* comparison returns is carried as the BooleanValue evalBinaryExpr makes of it.
cmpBy(expr, less, equal) ==
    CASE expr.Op = "Equal" -> BooleanValue(equal)
      [] expr.Op = "NotEqual" -> BooleanValue(~equal)
      [] expr.Op = "LessThan" -> BooleanValue(less)
      [] expr.Op = "LessThanOrEqualTo" -> BooleanValue(less \/ equal)
      [] expr.Op = "GreaterThan" -> BooleanValue(~less /\ ~equal)
      [] expr.Op = "GreaterThanOrEqualTo" -> BooleanValue(~less)
      [] OTHER -> errorf(expr, "invalid comparison operator: %s", <<expr.Op>>)

cmpInts(expr, a, b) == cmpBy(expr, a < b, a = b)
cmpFloats(expr, a, b) == cmpBy(expr, a < b, a = b)
cmpStrings(expr, a, b) == cmpBy(expr, StringRank(a) < StringRank(b), a = b)
cmpTimes(expr, a, b) == cmpBy(expr, a < b, a = b)

invalidComparison(expr, lhs, rhs) ==
    errorf(expr, "invalid comparison: %s %s %s", <<lhs, expr.Op, rhs>>)

\* comparisonOp with a null result for a null operand, as arithmeticOp has.
comparisonOpNullForNull(expr, lhs, rhs) ==
    IF lhs.t = "nil" \/ rhs.t = "nil" THEN Null
    ELSE invalidComparison(expr, lhs, rhs)

comparisonOp(expr, lhs, rhs) ==
    IF lhs.t = "nil" \/ rhs.t = "nil" THEN BooleanValue(FALSE)
    ELSE CASE lhs.t = "Boolean" /\ rhs.t = "Boolean" ->
                cmpInts(expr, toInt(lhs), toInt(rhs))
           [] lhs.t = "Integer" /\ rhs.t = "Integer" -> cmpInts(expr, lhs.i, rhs.i)
           [] lhs.t = "Integer" /\ rhs.t = "Number" ->
                cmpFloats(expr, Float64(lhs.i), rhs.f)
           [] lhs.t = "Integer" /\ rhs.t = "String" ->
                With([val \in {toInteger(rhs)} |->
                    IF IsPanic(val) THEN val ELSE cmpInts(expr, lhs.i, val.i)])
           [] lhs.t = "Number" /\ rhs.t = "Integer" ->
                cmpFloats(expr, lhs.f, Float64(rhs.i))
           [] lhs.t = "Number" /\ rhs.t = "Number" -> cmpFloats(expr, lhs.f, rhs.f)
           [] lhs.t = "Number" /\ rhs.t = "String" ->
                With([val \in {toNumber(rhs)} |->
                    IF IsPanic(val) THEN val ELSE cmpFloats(expr, lhs.f, val.f)])
           [] lhs.t = "String" /\ rhs.t = "Integer" ->
                \* val := rhs.toInteger(): the right operand, not the string
                cmpInts(expr, toInteger(rhs).i, rhs.i)
           [] lhs.t = "String" /\ rhs.t = "Number" ->
                \* val := rhs.toNumber(): the right operand, not the string
                cmpFloats(expr, toNumber(rhs).f, rhs.f)
           [] lhs.t = "String" /\ rhs.t = "String" -> cmpStrings(expr, lhs.s, rhs.s)
           [] lhs.t = "String" /\ rhs.t = "Timestamp" ->
                With([val \in {toTimestamp(lhs)} |->
                    IF IsPanic(val) THEN val ELSE cmpTimes(expr, val.ts, rhs.ts)])
           [] lhs.t = "Timestamp" /\ rhs.t = "String" ->
                With([val \in {toTimestamp(rhs)} |->
                    IF IsPanic(val) THEN val ELSE cmpTimes(expr, lhs.ts, val.ts)])
           [] lhs.t = "Timestamp" /\ rhs.t = "Timestamp" ->
                cmpTimes(expr, lhs.ts, rhs.ts)
           [] OTHER -> invalidComparison(expr, lhs, rhs)

\* Go's integer division truncates toward zero.
TruncDiv(x, y) ==
    IF (x >= 0) = (y > 0) THEN (IF x >= 0 THEN x ELSE -x) \div (IF y > 0 THEN y ELSE -y)
    ELSE -((IF x >= 0 THEN x ELSE -x) \div (IF y > 0 THEN y ELSE -y))

\* Integer arithmetic with the zero divisor reported at the node of the right
\* operand.
arithOpIntRightPos(expr, x, y) ==
    CASE expr.Op = "Plus" -> IntegerValue(WrapInt64(x + y))
      [] expr.Op = "Minus" -> IntegerValue(WrapInt64(x - y))
      [] expr.Op = "Mul" -> IntegerValue(WrapInt64(x * y))
      [] expr.Op = "Div" ->
            IF y = 0 THEN errorf(expr.Rhs, "divide by zero", <<>>)
            ELSE IntegerValue(WrapInt64(TruncDiv(x, y)))
      [] OTHER -> IntegerValue(0)

arithOpInt(expr, x, y) ==
    CASE expr.Op = "Plus" -> IntegerValue(WrapInt64(x + y))
      [] expr.Op = "Minus" -> IntegerValue(WrapInt64(x - y))
      [] expr.Op = "Mul" -> IntegerValue(WrapInt64(x * y))
      [] expr.Op = "Div" ->
            IF y = 0 THEN errorf(expr, "divide by zero", <<>>)
            ELSE IntegerValue(WrapInt64(TruncDiv(x, y)))
      [] OTHER -> IntegerValue(0)

\* Floating-point arithmetic on halves; a product or quotient off the grid
\* of halves is rounded toward zero onto it.
arithOpNum(expr, x, y) ==
    CASE expr.Op = "Plus" -> NumberValue(x + y)
      [] expr.Op = "Minus" -> NumberValue(x - y)
      [] expr.Op = "Mul" -> NumberValue(TruncDiv(x * y, 2))
      [] expr.Op = "Div" ->
            IF y = 0 THEN errorf(expr, "divide by zero", <<>>)
            ELSE NumberValue(TruncDiv(2 * x, y))
      [] OTHER -> NumberValue(0)

invalidArithmetic(expr, lhs, rhs) ==
    errorf(expr, "invalid arithmetic expression: %s %s %s", <<lhs, expr.Op, rhs>>)

arithmeticOp(expr, lhs, rhs) ==
    IF lhs.t = "nil" \/ rhs.t = "nil" THEN Null
    ELSE CASE lhs.t = "Integer" /\ rhs.t = "Integer" -> arithOpInt(expr, lhs.i, rhs.i)
           [] lhs.t = "Integer" /\ rhs.t = "Number" ->
                arithOpNum(expr, toNumber(lhs).f, rhs.f)
           [] lhs.t = "Integer" /\ rhs.t = "String" ->
                With([val \in {toInteger(rhs)} |->
                    IF IsPanic(val) THEN val ELSE arithOpInt(expr, lhs.i, val.i)])
           [] lhs.t = "Number" /\ rhs.t = "Integer" ->
                arithOpNum(expr, lhs.f, toNumber(rhs).f)
           [] lhs.t = "Number" /\ rhs.t = "Number" -> arithOpNum(expr, lhs.f, rhs.f)
           [] lhs.t = "Number" /\ rhs.t = "String" ->
                With([val \in {toNumber(rhs)} |->
                    IF IsPanic(val) THEN val ELSE arithOpNum(expr, lhs.f, val.f)])
           [] lhs.t = "String" /\ rhs.t = "Integer" ->
                With([val \in {toInteger(lhs)} |->
                    IF IsPanic(val) THEN val ELSE arithOpInt(expr, val.i, rhs.i)])
           [] lhs.t = "String" /\ rhs.t = "Number" ->
                With([val \in {toNumber(lhs)} |->
                    IF IsPanic(val) THEN val ELSE arithOpNum(expr, val.f, rhs.f)])
           [] OTHER -> invalidArithmetic(expr, lhs, rhs)

unaryArithOp(expr, value) ==
    IF value.t = "nil" THEN Null
    ELSE CASE expr.Op = "Plus" /\ value.t \in {"Integer", "Number"} -> value
           [] expr.Op = "Minus" /\ value.t = "Integer" ->
                IntegerValue(WrapInt64(-value.i))
           [] expr.Op = "Minus" /\ value.t = "Number" -> NumberValue(-value.f)
           [] expr.Op \notin {"Plus", "Minus"} ->
                errorf(expr, "invalid unary operator: %s", <<expr.Op>>)
           [] OTHER -> errorf(expr, "invalid value for unary %s: %s", <<expr.Op, value>>)

concatOp(expr, lhs, rhs) ==
    IF lhs.t = "nil" \/ rhs.t = "nil" THEN Null
    ELSE With([l \in {toString(lhs)}, r \in {toString(rhs)} |->
            IF IsPanic(l) THEN l
            ELSE IF IsPanic(r) THEN r
            ELSE StringValue(l.s \o r.s)])

\* Both operands are converted before the operator is applied.  The bool is
\* carried as the BooleanValue evalBinaryExpr makes of it.
logicalBooleanOp(expr, lhs, rhs) ==
    With([x \in {toBoolean(lhs)}, y \in {toBoolean(rhs)} |->
        IF IsPanic(x) THEN x
        ELSE IF IsPanic(y) THEN y
        ELSE CASE expr.Op = "And" -> BooleanValue(x.b /\ y.b)
               [] expr.Op = "Or" -> BooleanValue(x.b \/ y.b)
               [] OTHER -> errorf(expr, "invalid logical boolean op: %s", <<expr.Op>>)])

-----------------------------------------------------------------------------
(* Expressions *)

\* The value of a call that did not panic, where a result is needed.
Ok == [ok |-> TRUE]

\* finalize() of the three accumulator types.
finalize(fn) ==
    CASE fn.fn = "count" -> IntegerValue(fn.count)
      [] fn.fn = "minmax" ->
            IF fn.isFloat THEN NumberValue(fn.fval) ELSE IntegerValue(fn.ival)
      [] fn.fn = "sum" ->
            IF fn.isFloat THEN NumberValue(fn.fsum) ELSE IntegerValue(fn.isum)

RECURSIVE evalExpr(_, _, _)

evalBinaryExpr(funcs, ns, expr) ==
    With([lhs \in {evalExpr(funcs, ns, expr.Lhs)} |->
        IF IsPanic(lhs) THEN lhs
        ELSE With([rhs \in {evalExpr(funcs, ns, expr.Rhs)} |->
            IF IsPanic(rhs) THEN rhs
            ELSE CASE expr.Op \in {"And", "Or"} -> logicalBooleanOp(expr, lhs, rhs)
                   [] expr.Op \in {"Equal", "GreaterThan", "GreaterThanOrEqualTo",
                                   "LessThan", "LessThanOrEqualTo", "NotEqual"} ->
                        comparisonOp(expr, lhs, rhs)
                   [] expr.Op \in {"Plus", "Minus", "Mul", "Div"} ->
                        arithmeticOp(expr, lhs, rhs)
                   [] expr.Op = "Concat" -> concatOp(expr, lhs, rhs)
                   [] OTHER -> errorf(expr, "invalid binary operator: %s", <<expr.Op>>)])])

evalUnaryExpr(funcs, ns, expr) ==
    With([value \in {evalExpr(funcs, ns, expr.Expr)} |->
        IF IsPanic(value) THEN value
        ELSE IF expr.Op \in {"Plus", "Minus"} THEN unaryArithOp(expr, value)
        ELSE errorf(expr, "invalid unary operator: %s", <<expr.Op>>)])

\* funcs holds the accumulators that the aggFunc nodes of expr point to.
evalExpr(funcs, ns, expr) ==
    CASE expr.k = "Ident" -> lookup(ns, expr.Name)
      [] expr.k = "IntegerLiteral" -> IntegerValue(expr.Value)
      [] expr.k = "NumberLiteral" -> NumberValue(expr.Value)
      [] expr.k = "StringLiteral" -> StringValue(expr.Value)
      [] expr.k = "BooleanLiteral" -> BooleanValue(expr.Value)
      [] expr.k = "Null" -> Null
      [] expr.k = "BinaryExpr" -> evalBinaryExpr(funcs, ns, expr)
      [] expr.k = "UnaryExpr" -> evalUnaryExpr(funcs, ns, expr)
      [] expr.k = "FunctionCall" ->
            errorf(expr, "non-aggregate functions are not implemented", <<>>)
      [] expr.k = "aggFunc" -> finalize(funcs[expr.ref])
      [] OTHER -> errorf(expr, "cannot evaluate expression of type %T", <<expr.k>>)

\* for i, expr := range exprs { out[i] = evalExpr(ns, expr) }: the values, or
\* the first panic.
RECURSIVE evalExprs(_, _, _)
evalExprs(funcs, ns, exprs) ==
    IF Len(exprs) = 0 THEN [vals |-> <<>>]
    ELSE With([v \in {evalExpr(funcs, ns, Head(exprs))} |->
            IF IsPanic(v) THEN v
            ELSE With([rest \in {evalExprs(funcs, ns, Tail(exprs))} |->
                    IF IsPanic(rest) THEN rest
                    ELSE [vals |-> <<v>> \o rest.vals]])])

\* if stmt.Where != nil { if !bool(evalExpr(ns, stmt.Where).toBoolean()) ... }:
\* the BooleanValue telling whether the row matches, or the panic.
whereMatches(ns, where) ==
    IF where.k = "nil" THEN BooleanValue(TRUE)
    ELSE With([v \in {evalExpr(<<>>, ns, where)} |->
            IF IsPanic(v) THEN v ELSE toBoolean(v)])

-----------------------------------------------------------------------------
(* Aggregate functions *)

isAggFunc(name) == name \in {"count", "min", "max", "sum"}

upper(fname) ==
    CASE fname = "count" -> "COUNT"
      [] fname = "min" -> "MIN"
      [] fname = "max" -> "MAX"
      [] fname = "sum" -> "SUM"

validateArgCount(node, fname, args, expected) ==
    IF Len(args) # expected
    THEN errorf(node, "wrong number of arguments to %s: got %d, want %d",
                <<upper(fname), Len(args), expected>>)
    ELSE Ok

newCountAggFunc(node, args) ==
    With([ok \in {validateArgCount(node, "count", args, 1)} |->
        IF IsPanic(ok) THEN ok
        ELSE [fn |-> "count", expr |-> args[1], isStar |-> args[1].k = "SelectStarExpr",
              count |-> 0]])

newMinAggFunc(node, args) ==
    With([ok \in {validateArgCount(node, "min", args, 1)} |->
        IF IsPanic(ok) THEN ok
        ELSE [fn |-> "minmax", expr |-> args[1], fval |-> 0, ival |-> MaxInt64,
              isFloat |-> FALSE, isMin |-> TRUE]])

newMaxAggFunc(node, args) ==
    With([ok \in {validateArgCount(node, "max", args, 1)} |->
        IF IsPanic(ok) THEN ok
        ELSE [fn |-> "minmax", expr |-> args[1], fval |-> 0, ival |-> MinInt64,
              isFloat |-> FALSE, isMin |-> FALSE]])

newSumAggFunc(node, args) ==
    With([ok \in {validateArgCount(node, "sum", args, 1)} |->
        IF IsPanic(ok) THEN ok
        ELSE [fn |-> "sum", expr |-> args[1], fsum |-> 0, isum |-> 0, isFloat |-> FALSE]])

builtinAggFuncs(name, node, args) ==
    CASE name = "count" -> newCountAggFunc(node, args)
      [] name = "min" -> newMinAggFunc(node, args)
      [] name = "max" -> newMaxAggFunc(node, args)
      [] name = "sum" -> newSumAggFunc(node, args)

\* countAggFunc.step counting every row it is given, whether or not the
\* expression is null on it.
countStepEveryRow(fn, ns) == [fn EXCEPT !.count = @ + 1]

countStep(fn, ns) ==
    IF fn.isStar THEN [fn EXCEPT !.count = @ + 1]
    ELSE With([v \in {evalExpr(<<>>, ns, fn.expr)} |->
            IF IsPanic(v) THEN v
            ELSE IF v.t # "nil" THEN [fn EXCEPT !.count = @ + 1]
            ELSE fn])

setInt(fn, n) ==
    IF fn.isMin
    THEN (IF n < fn.ival THEN [fn EXCEPT !.ival = n] ELSE fn)
    ELSE (IF n > fn.ival THEN [fn EXCEPT !.ival = n] ELSE fn)

setFloat(fn, n) ==
    IF fn.isMin
    THEN (IF fn.fval < n THEN [fn EXCEPT !.fval = n] ELSE fn)
    ELSE (IF fn.fval > n THEN [fn EXCEPT !.fval = n] ELSE fn)

minMaxStep(fn, ns) ==
    With([value \in {evalExpr(<<>>, ns, fn.expr)} |->
        IF IsPanic(value) THEN value
        ELSE CASE value.t = "Integer" ->
                    IF fn.isFloat THEN setFloat(fn, Float64(value.i))
                    ELSE setInt(fn, value.i)
               [] value.t = "Number" ->
                    IF ~fn.isFloat
                    THEN setFloat([fn EXCEPT !.isFloat = TRUE, !.fval = Float64(fn.ival)],
                                  value.f)
                    ELSE setFloat(fn, value.f)
               [] value.t = "nil" -> fn
               [] OTHER -> errorf(fn.expr, "cannot compute MIN of %s", <<value>>)])

sumStep(fn, ns) ==
    With([value \in {evalExpr(<<>>, ns, fn.expr)} |->
        IF IsPanic(value) THEN value
        ELSE CASE value.t = "Integer" ->
                    IF fn.isFloat THEN [fn EXCEPT !.fsum = @ + Float64(value.i)]
                    ELSE [fn EXCEPT !.isum = WrapInt64(@ + value.i)]
               [] value.t = "Number" ->
                    IF ~fn.isFloat
                    THEN [fn EXCEPT !.isFloat = TRUE,
                                    !.fsum = fn.fsum + Float64(fn.isum) + value.f]
                    ELSE [fn EXCEPT !.fsum = @ + value.f]
               [] value.t = "nil" -> fn
               [] OTHER -> errorf(fn.expr, "cannot compute SUM of %s", <<value>>)])

\* aggFunc.step: the accumulator after the row, or the panic.
step(fn, ns) ==
    CASE fn.fn = "count" -> countStep(fn, ns)
      [] fn.fn = "minmax" -> minMaxStep(fn, ns)
      [] fn.fn = "sum" -> sumStep(fn, ns)

\* for _, fn := range rewriter.funcs { fn.step(ns) }
RECURSIVE stepAll(_, _, _)
stepAll(funcs, ns, i) ==
    IF i > Len(funcs) THEN [funcs |-> funcs]
    ELSE With([fn \in {step(funcs[i], ns)} |->
            IF IsPanic(fn) THEN fn
            ELSE stepAll([funcs EXCEPT ![i] = fn], ns, i + 1)])

\* containsAggFunc on an expression: ast.Walk reaches every node of it.
RECURSIVE containsAggFunc(_)
containsAggFunc(node) ==
    CASE node.k = "FunctionCall" ->
            \/ isAggFunc(node.Name.Name)
            \/ \E i \in 1..Len(node.Args) : containsAggFunc(node.Args[i])
      [] node.k = "BinaryExpr" -> containsAggFunc(node.Lhs) \/ containsAggFunc(node.Rhs)
      [] node.k = "UnaryExpr" -> containsAggFunc(node.Expr)
      [] OTHER -> FALSE

\* validateAggExpr accepting every expression.
validateAggExprAcceptsAll(node) == Ok

\* validateAggExpr walks the expression in depth-first order and panics at the
\* first offending node; Ok when there is none.
RECURSIVE validateAggExpr(_)
RECURSIVE validateAggExprs(_)
validateAggExprs(nodes) ==
    IF Len(nodes) = 0 THEN Ok
    ELSE With([v \in {validateAggExpr(Head(nodes))} |->
            IF IsPanic(v) THEN v ELSE validateAggExprs(Tail(nodes))])

validateAggExpr(node) ==
    CASE node.k = "FunctionCall" ->
            IF isAggFunc(node.Name.Name)
            THEN IF \E i \in 1..Len(node.Args) : containsAggFunc(node.Args[i])
                 THEN LET i == CHOOSE i \in 1..Len(node.Args) :
                                  /\ containsAggFunc(node.Args[i])
                                  /\ \A j \in 1..(i - 1) : ~containsAggFunc(node.Args[j])
                      IN  errorf(node.Args[i], "aggregate function calls cannot be nested",
                                 <<>>)
                 ELSE Ok
            ELSE validateAggExprs(<<node.Name>> \o node.Args)
      [] node.k = "Ident" ->
            errorf(node, "column %q must appear in the GROUP BY clause or be used in an aggregate function",
                   <<node.Name>>)
      [] node.k = "BinaryExpr" -> validateAggExprs(<<node.Lhs, node.Rhs>>)
      [] node.k = "UnaryExpr" -> validateAggExpr(node.Expr)
      [] OTHER -> Ok

\* aggFuncRewriter.rewrite: [expr |-> the rewritten expression, funcs |-> the
\* rewriter's accumulators afterwards], or the panic.
RECURSIVE rewrite(_, _)
rewrite(funcs, expr) ==
    CASE expr.k = "BinaryExpr" ->
            With([l \in {rewrite(funcs, expr.Lhs)} |->
                IF IsPanic(l) THEN l
                ELSE With([r \in {rewrite(l.funcs, expr.Rhs)} |->
                        IF IsPanic(r) THEN r
                        ELSE [expr |-> BinaryExpr(l.expr, expr.Op, r.expr),
                              funcs |-> r.funcs]])])
      [] expr.k = "UnaryExpr" ->
            With([e \in {rewrite(funcs, expr.Expr)} |->
                IF IsPanic(e) THEN e
                ELSE [expr |-> [expr EXCEPT !.Expr = e.expr], funcs |-> e.funcs]])
      [] expr.k = "FunctionCall" ->
            IF isAggFunc(expr.Name.Name)
            THEN With([newNode \in {builtinAggFuncs(expr.Name.Name, expr, expr.Args)} |->
                    IF IsPanic(newNode) THEN newNode
                    ELSE [expr |-> AggFuncNode(Len(funcs) + 1, NodePos(newNode.expr)),
                          funcs |-> Append(funcs, newNode)]])
            ELSE errorf(expr, "unknown function: %s", <<expr.Name.Name>>)
      [] OTHER -> [expr |-> expr, funcs |-> funcs]

-----------------------------------------------------------------------------
(* Statements.  An Environment is its map tables, a function from the names
   of the tables to the tables.  Each eval...Stmt gives the Environment it
   leaves (also when it panics part-way), the panic or Ok, and the result
   table or NoTable. *)

NoTable == [none |-> TRUE]
EmptyEnvironment == [tables |-> [n \in {} |-> NoTable]]

Done(env, table) == [env |-> env, panic |-> Ok, table |-> table]
Panicked(env, p) == [env |-> env, panic |-> p, table |-> NoTable]

HasTable(env, name) == name \in DOMAIN env.tables

\* Environment.lookupTable: whether it panics, and its panic.
lookupTablePanic(name) == PanicErrorf("relation %q does not exist", <<name>>)

WithTable(env, table) ==
    [env EXCEPT !.tables =
        [n \in (DOMAIN env.tables) \cup {table.Name} |->
            IF n = table.Name THEN table ELSE env.tables[n]]]

\* Environment.CreateTable without the check for a table of the same name: the
\* new table replaces it.
CreateTableReplacing(env, table) ==
    IF \E i, j \in 1..Len(table.Columns) :
            i < j /\ table.Columns[i].Name = table.Columns[j].Name
    THEN Panicked(env, PanicErrorf("column %q specified more than once", <<>>))
    ELSE Done(WithTable(env, table), NoTable)

\* Environment.CreateTable: the error it returns or Ok, and the Environment.
CreateTable(env, table) ==
    IF HasTable(env, table.Name)
    THEN Panicked(env, PanicErrorf("relation %q already exists", <<table.Name>>))
    ELSE IF \E i, j \in 1..Len(table.Columns) :
                i < j /\ table.Columns[i].Name = table.Columns[j].Name
    THEN LET j == CHOOSE j \in 1..Len(table.Columns) :
                    /\ \E i \in 1..(j - 1) : table.Columns[i].Name = table.Columns[j].Name
                    /\ \A j2 \in 1..(j - 1) : \A i \in 1..(j2 - 1) :
                            table.Columns[i].Name # table.Columns[j2].Name
         IN  Panicked(env, PanicErrorf("column %q specified more than once",
                                       <<table.Columns[j].Name>>))
    ELSE Done(WithTable(env, table), NoTable)

evalCreateTableStmt(env, stmt) ==
    IF \E i \in 1..Len(stmt.Columns) : IsPanic(dataTypeFromToken(stmt.Columns[i].Type))
    THEN LET i == CHOOSE i \in 1..Len(stmt.Columns) :
                    /\ IsPanic(dataTypeFromToken(stmt.Columns[i].Type))
                    /\ \A j \in 1..(i - 1) :
                            ~IsPanic(dataTypeFromToken(stmt.Columns[j].Type))
         IN  Panicked(env, dataTypeFromToken(stmt.Columns[i].Type))
    ELSE CreateTable(env,
            [Name |-> stmt.Table.Name,
             Columns |-> [i \in 1..Len(stmt.Columns) |->
                            Column(stmt.Columns[i].Name.Name,
                                   dataTypeFromToken(stmt.Columns[i].Type).dt,
                                   stmt.Columns[i].Nullable)],
             Data |-> <<>>])

\* The expansion of "select *": each "*" becomes the table's column names.
RECURSIVE expandStar(_, _)
expandStar(table, columns) ==
    IF Len(columns) = 0 THEN <<>>
    ELSE (IF Head(columns).k = "SelectStarExpr"
          THEN [i \in 1..Len(table.Columns) |->
                    IdentAt(NodePos(Head(columns)), table.Columns[i].Name)]
          ELSE <<Head(columns)>>)
         \o expandStar(table, Tail(columns))

\* The loop of evalSelectStmt over table.Data from row i on: [rows |-> the
\* result rows], or the first panic.
RECURSIVE selectRows(_, _, _, _)
selectRows(table, stmt, projection, i) ==
    IF i > Len(table.Data) THEN [rows |-> <<>>]
    ELSE LET ns == currentRow(table, table.Data[i])
         IN  With([m \in {whereMatches(ns, stmt.Where)} |->
                IF IsPanic(m) THEN m
                ELSE IF ~m.b THEN selectRows(table, stmt, projection, i + 1)
                ELSE With([result \in {evalExprs(<<>>, ns, projection)} |->
                        IF IsPanic(result) THEN result
                        ELSE With([rest \in {selectRows(table, stmt, projection, i + 1)} |->
                                IF IsPanic(rest) THEN rest
                                ELSE [rows |-> <<result.vals>> \o rest.rows]])])])

\* The first loop of evalAggregateSelectStmt: validate and rewrite each
\* projection in turn.  [projection, funcs], or the first panic.
RECURSIVE rewriteAll(_, _, _)
rewriteAll(projection, funcs, i) ==
    IF i > Len(projection) THEN [projection |-> projection, funcs |-> funcs]
    ELSE With([v \in {validateAggExpr(projection[i])} |->
            IF IsPanic(v) THEN v
            ELSE With([r \in {rewrite(funcs, projection[i])} |->
                    IF IsPanic(r) THEN r
                    ELSE rewriteAll([projection EXCEPT ![i] = r.expr], r.funcs, i + 1)])])

\* The second loop reporting a match whether or not a row satisfied WHERE, so
\* that a result row is always built.
RECURSIVE aggregateRowsAlwaysMatched(_, _, _, _, _)
aggregateRowsAlwaysMatched(table, stmt, funcs, matched, i) ==
    IF i > Len(table.Data) THEN [funcs |-> funcs, matched |-> TRUE]
    ELSE LET ns == currentRow(table, table.Data[i])
         IN  With([m \in {whereMatches(ns, stmt.Where)} |->
                IF IsPanic(m) THEN m
                ELSE IF ~m.b
                THEN aggregateRowsAlwaysMatched(table, stmt, funcs, matched, i + 1)
                ELSE With([s \in {stepAll(funcs, ns, 1)} |->
                        IF IsPanic(s) THEN s
                        ELSE aggregateRowsAlwaysMatched(table, stmt, s.funcs, TRUE,
                                                        i + 1)])])

\* The second loop: every row that satisfies WHERE goes to every accumulator.
\* [funcs, matched], or the first panic.
RECURSIVE aggregateRows(_, _, _, _, _)
aggregateRows(table, stmt, funcs, matched, i) ==
    IF i > Len(table.Data) THEN [funcs |-> funcs, matched |-> matched]
    ELSE LET ns == currentRow(table, table.Data[i])
         IN  With([m \in {whereMatches(ns, stmt.Where)} |->
                IF IsPanic(m) THEN m
                ELSE IF ~m.b THEN aggregateRows(table, stmt, funcs, matched, i + 1)
                ELSE With([s \in {stepAll(funcs, ns, 1)} |->
                        IF IsPanic(s) THEN s
                        ELSE aggregateRows(table, stmt, s.funcs, TRUE, i + 1)])])

\* evalAggregateSelectStmt building the result row whenever the table has a
\* row, whether or not a row satisfied WHERE.
evalAggregateSelectStmtNonEmpty(env, stmt, table, projection) ==
    With([rw \in {rewriteAll(projection, <<>>, 1)} |->
        IF IsPanic(rw) THEN Panicked(env, rw)
        ELSE With([agg \in {aggregateRows(table, stmt, rw.funcs, FALSE, 1)} |->
            IF IsPanic(agg) THEN Panicked(env, agg)
            ELSE LET some == Len(table.Data) > 0
                     meta == [i \in 1..Len(rw.projection) |->
                                Column("?", InvalidDataType, FALSE)]
                 IN  With([result \in {IF some
                                       THEN evalExprs(agg.funcs, emptyNamespace,
                                                      rw.projection)
                                       ELSE [vals |-> <<>>]} |->
                        IF IsPanic(result) THEN Panicked(env, result)
                        ELSE Done(env,
                               [Name |-> "", Columns |-> meta,
                                Data |-> IF some THEN <<result.vals>> ELSE <<>>])])])])

evalAggregateSelectStmt(env, stmt, table, projection) ==
    With([rw \in {rewriteAll(projection, <<>>, 1)} |->
        IF IsPanic(rw) THEN Panicked(env, rw)
        ELSE With([agg \in {aggregateRows(table, stmt, rw.funcs, FALSE, 1)} |->
            IF IsPanic(agg) THEN Panicked(env, agg)
            ELSE LET meta == [i \in 1..Len(rw.projection) |->
                                Column("?", InvalidDataType, FALSE)]
                 IN  With([result \in {IF agg.matched
                                       THEN evalExprs(agg.funcs, emptyNamespace,
                                                      rw.projection)
                                       ELSE [vals |-> <<>>]} |->
                        IF IsPanic(result) THEN Panicked(env, result)
                        ELSE Done(env,
                               [Name |-> "", Columns |-> meta,
                                Data |-> IF agg.matched THEN <<result.vals>>
                                         ELSE <<>>])])])])

evalSelectStmt(env, stmt) ==
    IF stmt.Table.k # "Ident"
    THEN Panicked(env, errorf(stmt, "table subexpressions not supported", <<>>))
    ELSE IF ~HasTable(env, stmt.Table.Name)
    THEN Panicked(env, lookupTablePanic(stmt.Table.Name))
    ELSE LET table == env.tables[stmt.Table.Name]
         IN  With([projection \in {expandStar(table, stmt.Columns)} |->
                IF \E i \in 1..Len(projection) : containsAggFunc(projection[i])
                THEN evalAggregateSelectStmt(env, stmt, table, projection)
                ELSE LET meta == [i \in 1..Len(projection) |->
                                    Column(IF projection[i].k = "Ident"
                                           THEN projection[i].Name ELSE "?",
                                           InvalidDataType, FALSE)]
                     IN  With([results \in {selectRows(table, stmt, projection, 1)} |->
                            IF IsPanic(results) THEN Panicked(env, results)
                            ELSE Done(env, [Name |-> "", Columns |-> meta,
                                            Data |-> results.rows])])])

\* The row Table.insert builds when column names are given, column by column
\* from column i on: [row, columns] (a column's NextVal may have advanced).
RECURSIVE placeByName(_, _, _, _, _)
placeByName(columns, names, values, row, i) ==
    IF i > Len(columns) THEN [row |-> row, columns |-> columns]
    ELSE LET col == columns[i]
         IN  IF \E j \in 1..Len(names) : names[j] = col.Name
             THEN LET j == CHOOSE j \in 1..Len(names) :
                             /\ names[j] = col.Name
                             /\ \A j2 \in 1..(j - 1) : names[j2] # col.Name
                  IN  placeByName(columns, names, values, [row EXCEPT ![i] = values[j]],
                                  i + 1)
             ELSE IF col.Type = "Integer" /\ col.AutoInc
             THEN placeByName([columns EXCEPT ![i].NextVal = @ + 1], names, values,
                              [row EXCEPT ![i] = IntegerValue(col.NextVal)], i + 1)
             ELSE IF col.Default.t # "nil"
             THEN placeByName(columns, names, values, [row EXCEPT ![i] = col.Default],
                              i + 1)
             ELSE placeByName(columns, names, values, row, i + 1)

\* The last loop of Table.insert without the not-null check.
RECURSIVE coerceRowNullsAllowed(_, _, _)
coerceRowNullsAllowed(columns, row, i) ==
    IF i > Len(row) THEN [row |-> row]
    ELSE IF row[i].t # "nil"
    THEN With([v \in {coerce(row[i], columns[i].Type)} |->
            IF IsPanic(v) THEN v
            ELSE coerceRowNullsAllowed(columns, [row EXCEPT ![i] = v], i + 1)])
    ELSE coerceRowNullsAllowed(columns, row, i + 1)

\* The last loop of Table.insert, from column i on: coerce each non-null
\* value, reject a null in a NOT NULL column.  [row], or the first panic.
RECURSIVE coerceRow(_, _, _)
coerceRow(columns, row, i) ==
    IF i > Len(row) THEN [row |-> row]
    ELSE IF row[i].t # "nil"
    THEN With([v \in {coerce(row[i], columns[i].Type)} |->
            IF IsPanic(v) THEN v
            ELSE coerceRow(columns, [row EXCEPT ![i] = v], i + 1)])
    ELSE IF ~columns[i].Nullable
    THEN PanicErrorf("null value in column %q violates not-null constraint",
                     <<columns[i].Name>>)
    ELSE coerceRow(columns, row, i + 1)

\* Table.insert putting the new row in front of the rows of the table.
insertInFront(tab, names, values) ==
    IF Len(names) # 0 \/ Len(values) # Len(tab.Columns)
    THEN [table |-> tab,
          panic |-> PanicErrorf("INSERT has %d expressions but %d target columns",
                                <<Len(values), Len(tab.Columns)>>)]
    ELSE With([coerced \in {coerceRow(tab.Columns, values, 1)} |->
            IF IsPanic(coerced) THEN [table |-> tab, panic |-> coerced]
            ELSE [table |-> [tab EXCEPT !.Data = <<coerced.row>> \o @], panic |-> Ok]])

\* Table.insert counting the columns of the table as the targets, whatever
\* the column list.
insertCountingTableColumns(tab, names, values) ==
    IF Len(tab.Columns) # Len(values)
    THEN [table |-> tab,
          panic |-> PanicErrorf("INSERT has %d expressions but %d target columns",
                                <<Len(values), Len(tab.Columns)>>)]
    ELSE insertInFront(tab, <<>>, values)

\* Table.insert: [table |-> the table afterwards, panic |-> its panic or Ok].
insert(tab, names, values) ==
    LET numTargets == IF Len(names) = 0 THEN Len(tab.Columns) ELSE Len(names)
        nilRow == [i \in 1..Len(tab.Columns) |-> Null]
    IN  IF numTargets # Len(values)
        THEN [table |-> tab,
              panic |-> PanicErrorf("INSERT has %d expressions but %d target columns",
                                    <<Len(values), numTargets>>)]
        ELSE IF \E j \in 1..Len(names) : colIndex(tab, names[j]) = 0
        THEN LET j == CHOOSE j \in 1..Len(names) :
                        /\ colIndex(tab, names[j]) = 0
                        /\ \A j2 \in 1..(j - 1) : colIndex(tab, names[j2]) # 0
             IN  [table |-> tab,
                  panic |-> PanicErrorf("column %q of relation %q does not exist",
                                        <<names[j], tab.Name>>)]
        ELSE With([placed \in {IF Len(names) # 0
                               THEN placeByName(tab.Columns, names, values, nilRow, 1)
                               ELSE [row |-> [i \in 1..Len(tab.Columns) |-> values[i]],
                                     columns |-> tab.Columns]} |->
                With([coerced \in {coerceRow(placed.columns, placed.row, 1)} |->
                    LET tab2 == [tab EXCEPT !.Columns = placed.columns]
                    IN  IF IsPanic(coerced) THEN [table |-> tab2, panic |-> coerced]
                        ELSE [table |-> [tab2 EXCEPT !.Data = Append(@, coerced.row)],
                              panic |-> Ok]])])

evalInsertStmt(env, stmt) ==
    IF ~HasTable(env, stmt.Table.Name)
    THEN Panicked(env, lookupTablePanic(stmt.Table.Name))
    ELSE LET table == env.tables[stmt.Table.Name]
             names == [i \in 1..Len(stmt.Columns) |-> stmt.Columns[i].Name]
         IN  With([values \in {evalExprs(<<>>, emptyNamespace, stmt.Values)} |->
                IF IsPanic(values) THEN Panicked(env, values)
                ELSE With([r \in {insert(table, names, values.vals)} |->
                        IF IsPanic(r.panic)
                        THEN Panicked(WithTable(env, r.table), r.panic)
                        ELSE Done(WithTable(env, r.table), NoTable)])])

\* The SET clause applied to row i, from assignment k on.  The namespace holds
\* the row itself, not a copy: row[n] = ... is seen by the next assignment.
\* [table, panic].
RECURSIVE applySet(_, _, _, _)
applySet(table, stmt, i, k) ==
    IF k > Len(stmt.Columns) THEN [table |-> table, panic |-> Ok]
    ELSE LET name == stmt.Columns[k]
             n == colIndex(table, name.Name)
             ns == currentRow(table, table.Data[i])
         IN  IF n = 0
             THEN [table |-> table,
                   panic |-> errorf(name, "column %q of relation %q does not exist",
                                    <<name.Name, table.Name>>)]
             ELSE With([v \in {evalExpr(<<>>, ns, stmt.Values[k])} |->
                    IF IsPanic(v) THEN [table |-> table, panic |-> v]
                    ELSE applySet([table EXCEPT !.Data[i][n] = v], stmt, i, k + 1)])

\* The loop of evalUpdateStmt over the rows, from row i on.  [table, panic]:
\* the rows are updated in place, so what was written before a panic stays.
RECURSIVE updateRows(_, _, _)
updateRows(table, stmt, i) ==
    IF i > Len(table.Data) THEN [table |-> table, panic |-> Ok]
    ELSE With([m \in {whereMatches(currentRow(table, table.Data[i]), stmt.Where)} |->
            IF IsPanic(m) THEN [table |-> table, panic |-> m]
            ELSE IF ~m.b THEN updateRows(table, stmt, i + 1)
            ELSE With([r \in {applySet(table, stmt, i, 1)} |->
                    IF IsPanic(r.panic) THEN r
                    ELSE updateRows(r.table, stmt, i + 1)])])

evalUpdateStmt(env, stmt) ==
    IF ~HasTable(env, stmt.Table.Name)
    THEN Panicked(env, lookupTablePanic(stmt.Table.Name))
    ELSE With([r \in {updateRows(env.tables[stmt.Table.Name], stmt, 1)} |->
            IF IsPanic(r.panic) THEN Panicked(WithTable(env, r.table), r.panic)
            ELSE Done(WithTable(env, r.table), NoTable)])

\* The loop of evalDeleteStmt from row i on: [rows |-> newData], or the panic.
RECURSIVE deleteRows(_, _, _)
deleteRows(table, stmt, i) ==
    IF i > Len(table.Data) THEN [rows |-> <<>>]
    ELSE With([keep \in {IF stmt.Where.k # "nil"
                         THEN With([m \in {whereMatches(currentRow(table, table.Data[i]),
                                                        stmt.Where)} |->
                                IF IsPanic(m) THEN m ELSE BooleanValue(~m.b)])
                         ELSE BooleanValue(FALSE)} |->
            IF IsPanic(keep) THEN keep
            ELSE With([rest \in {deleteRows(table, stmt, i + 1)} |->
                    IF IsPanic(rest) THEN rest
                    ELSE [rows |-> (IF keep.b THEN <<table.Data[i]>> ELSE <<>>)
                                   \o rest.rows]])])

evalDeleteStmt(env, stmt) ==
    IF ~HasTable(env, stmt.Table.Name)
    THEN Panicked(env, lookupTablePanic(stmt.Table.Name))
    ELSE LET table == env.tables[stmt.Table.Name]
         IN  With([newData \in {deleteRows(table, stmt, 1)} |->
                IF IsPanic(newData) THEN Panicked(env, newData)
                ELSE Done(WithTable(env, [table EXCEPT !.Data = newData.rows]),
                          NoTable)])

\* The deferred function of EvalStmt, given the recovered panic r: the error
\* EvalStmt returns, and the panic that leaves EvalStmt (none: Ok).
NoError == [none |-> TRUE]

\* A deferred function that turns only error values into the returned error
\* and panics again with anything else, as the parser's does.
recoveredErrorsOnly(stmt, r) ==
    IF r.isError
    THEN [err |-> [Msg |-> r.Msg, Args |-> r.Args, Pos |-> r.Pos], fault |-> Ok]
    ELSE [err |-> NoError, fault |-> r]

recovered(stmt, r) ==
    IF r.isError
    THEN [err |-> [Msg |-> r.Msg, Args |-> r.Args, Pos |-> r.Pos], fault |-> Ok]
    ELSE [err |-> [Msg |-> "%s", Args |-> <<r>>, Pos |-> NodePos(stmt)], fault |-> Ok]

\* EvalStmt: the Environment afterwards, the table and the error returned, and
\* the panic that reaches the caller (fault; Ok when EvalStmt returns).
EvalStmt(env, stmt) ==
    With([r \in {CASE stmt.k = "CreateTableStmt" -> evalCreateTableStmt(env, stmt)
                   [] stmt.k = "SelectStmt" -> evalSelectStmt(env, stmt)
                   [] stmt.k = "InsertStmt" -> evalInsertStmt(env, stmt)
                   [] stmt.k = "UpdateStmt" -> evalUpdateStmt(env, stmt)
                   [] stmt.k = "DeleteStmt" -> evalDeleteStmt(env, stmt)
                   [] OTHER ->
                        Panicked(env, errorf(stmt, "cannot evaluate non-statement %t",
                                             <<stmt.k>>))} |->
        IF IsPanic(r.panic)
        THEN With([rec \in {recovered(stmt, r.panic)} |->
                [env |-> r.env, table |-> NoTable, err |-> rec.err, fault |-> rec.fault]])
        ELSE [env |-> r.env, table |-> r.table, err |-> NoError, fault |-> Ok]])

-----------------------------------------------------------------------------
(* The lexer (package lexer).  A Go string is a string, a []rune a sequence
   of one-character strings; offsets count from 0 as in the code, so that
   input[i] of the code is At(lex, i).  The rune 0 is the empty string. *)

\* []rune(s).
Runes(s) == [i \in 1..Len(s) |-> SubSeq(s, i, i)]

\* string(runes).
RECURSIVE String(_)
String(runes) ==
    IF Len(runes) = 0 THEN ""
    ELSE IF Len(runes) = 1 THEN runes[1]
    ELSE String(SubSeq(runes, 1, Len(runes) \div 2))
         \o String(SubSeq(runes, Len(runes) \div 2 + 1, Len(runes)))

\* The letters are those of ASCII and two letters from outside it, e-acute and
\* u-diaeresis, whose UTF-8 encodings have two bytes.  The model's strings hold
\* ASCII characters only, so the four are written with characters that the
\* lexer's input never holds otherwise: "@" and "$" are the two lower-case
\* letters, "&" and "~" their upper-case forms.
Digits == Runes("0123456789")
LowerLetters == Runes("abcdefghijklmnopqrstuvwxyz") \o <<"@", "$">>
UpperLetters == Runes("ABCDEFGHIJKLMNOPQRSTUVWXYZ") \o <<"&", "~">>

\* The index of r in the sequence of runes, 0 if it is not there.
IndexIn(runes, r) ==
    IF \E i \in 1..Len(runes) : runes[i] = r
    THEN CHOOSE i \in 1..Len(runes) : runes[i] = r
    ELSE 0

\* unicode.IsDigit, unicode.IsLetter, unicode.IsSpace, unicode.ToLower.
IsDigit(r) == IndexIn(Digits, r) # 0
IsLetter(r) == IndexIn(LowerLetters, r) # 0 \/ IndexIn(UpperLetters, r) # 0
IsSpace(r) == r \in {" ", "\t", "\n", "\r"}
ToLower(r) ==
    IF IndexIn(UpperLetters, r) # 0 THEN LowerLetters[IndexIn(UpperLetters, r)] ELSE r

\* The number of bytes of the rune in UTF-8.
RuneLen(r) == IF r \in {"@", "$", "&", "~"} THEN 2 ELSE 1

\* len(s) for the string s of these runes: its number of bytes.
RECURSIVE ByteLen(_)
ByteLen(runes) ==
    IF Len(runes) = 0 THEN 0 ELSE RuneLen(Head(runes)) + ByteLen(Tail(runes))

\* strings.ToLower, rune by rune.
LowerRunes(runes) == [i \in 1..Len(runes) |-> ToLower(runes[i])]

sqlKeywords ==
    [w \in {"and", "boolean", "create", "delete", "false", "from", "insert",
            "integer", "into", "not", "null", "number", "or", "select", "set",
            "table", "timestamp", "true", "update", "values", "varchar", "where"} |->
        CASE w = "and" -> "And" [] w = "boolean" -> "Boolean"
          [] w = "create" -> "Create" [] w = "delete" -> "Delete"
          [] w = "false" -> "False" [] w = "from" -> "From"
          [] w = "insert" -> "Insert" [] w = "integer" -> "Integer"
          [] w = "into" -> "Into" [] w = "not" -> "Not"
          [] w = "null" -> "Null" [] w = "number" -> "Number"
          [] w = "or" -> "Or" [] w = "select" -> "Select"
          [] w = "set" -> "Set" [] w = "table" -> "Table"
          [] w = "timestamp" -> "Timestamp" [] w = "true" -> "True"
          [] w = "update" -> "Update" [] w = "values" -> "Values"
          [] w = "varchar" -> "Varchar" [] w = "where" -> "Where"]

\* token.Token; the zero Token has the Kind Invalid.
Token(kind, pos, lit) == [Kind |-> kind, Pos |-> pos, Lit |-> lit]

\* lexer.New.
New(input) ==
    [input |-> Runes(input), pos |-> 0, line |-> 1, linePos |-> 0,
     tok |-> Token("Invalid", NoPos, ""), err |-> NoError]

At(lex, i) == lex.input[i + 1]

EOF(lex) == lex.pos >= Len(lex.input)

nextRune(lex) ==
    IF lex.pos < Len(lex.input) - 1 THEN At(lex, lex.pos + 1) ELSE ""

getPos(lex) == Pos(lex.line, lex.pos - lex.linePos)

setToken(lex, kind) ==
    [lex EXCEPT !.tok.Kind = kind, !.tok.Pos = getPos(lex)]

\* Lexer.errorf: the *lexer.Error at the current line and column.
lexErrorf(lex, msg, args) == [Msg |-> msg, Args |-> args, Pos |-> getPos(lex)]

\* skipSpace with a line tracker that starts the new line at the line break
\* but does not count it: the column starts again on the same line number.
RECURSIVE skipSpaceFromSameLine(_, _, _)
skipSpaceFromSameLine(lex, line, linePos) ==
    IF ~(lex.pos < Len(lex.input)) THEN [lex |-> lex, ok |-> FALSE]
    ELSE LET r == At(lex, lex.pos)
         IN  IF ~IsSpace(r)
             THEN [lex |-> [lex EXCEPT !.line = line, !.linePos = linePos], ok |-> TRUE]
             ELSE IF r = "\n"
             THEN skipSpaceFromSameLine([lex EXCEPT !.pos = @ + 1], line, lex.pos + 1)
             ELSE IF r = "\r"
             THEN LET p == IF nextRune(lex) = "\n" THEN lex.pos + 1 ELSE lex.pos
                  IN  skipSpaceFromSameLine([lex EXCEPT !.pos = p + 1], line, p + 1)
             ELSE skipSpaceFromSameLine([lex EXCEPT !.pos = @ + 1], line, linePos)

\* skipSpace, with the line and linePos of its lineTracker: [lex, ok].
RECURSIVE skipSpaceFrom(_, _, _)
skipSpaceFrom(lex, line, linePos) ==
    IF ~(lex.pos < Len(lex.input)) THEN [lex |-> lex, ok |-> FALSE]
    ELSE LET r == At(lex, lex.pos)
         IN  IF ~IsSpace(r)
             THEN [lex |-> [lex EXCEPT !.line = line, !.linePos = linePos], ok |-> TRUE]
             ELSE IF r = "\n"
             THEN skipSpaceFrom([lex EXCEPT !.pos = @ + 1], line + 1, lex.pos + 1)
             ELSE IF r = "\r"
             THEN LET p == IF nextRune(lex) = "\n" THEN lex.pos + 1 ELSE lex.pos
                  IN  skipSpaceFrom([lex EXCEPT !.pos = p + 1], line + 1, p + 1)
             ELSE skipSpaceFrom([lex EXCEPT !.pos = @ + 1], line, linePos)

skipSpace(lex) == skipSpaceFrom(lex, lex.line, lex.linePos)

consumeRune(lex, kind) ==
    [lex |-> [setToken(lex, kind) EXCEPT !.pos = @ + 1], ok |-> TRUE]

\* matchString for the operator s; ok is FALSE, and lex as it was, when the
\* input does not continue with s.
matchString(lex, s, kind) ==
    IF lex.pos + Len(s) > Len(lex.input) THEN [lex |-> lex, ok |-> FALSE]
    ELSE IF \E i \in 0..(Len(s) - 1) : At(lex, lex.pos + i) # SubSeq(s, i + 1, i + 1)
    THEN [lex |-> lex, ok |-> FALSE]
    ELSE [lex |-> [setToken(lex, kind) EXCEPT !.pos = @ + Len(s)], ok |-> TRUE]

\* The first offset from i on whose rune is no digit (len(runes) if none).
RECURSIVE DigitsEnd(_, _)
DigitsEnd(runes, i) ==
    IF i < Len(runes) /\ IsDigit(runes[i + 1]) THEN DigitsEnd(runes, i + 1) ELSE i

\* The number written by the digits runes[i], ..., runes[j - 1].
RECURSIVE NatOf(_, _, _)
NatOf(runes, i, j) ==
    IF i >= j THEN 0
    ELSE 10 * NatOf(runes, i, j - 1) + (IndexIn(Digits, runes[j]) - 1)

\* The parts of a literal made of digits, "." and "e": the offsets where the
\* integer digits, the fraction digits and the exponent digits end.
NumberParts(lit) ==
    With([runes \in {Runes(lit)} |->
    With([a \in {DigitsEnd(runes, 0)} |->
        LET hasDot == a < Len(runes) /\ runes[a + 1] = "."
        IN  With([b \in {IF hasDot THEN DigitsEnd(runes, a + 1) ELSE a} |->
                LET hasExp == b < Len(runes) /\ runes[b + 1] = "e"
                IN  [runes |-> runes, a |-> a, hasDot |-> hasDot, b |-> b,
                     hasExp |-> hasExp,
                     c |-> IF hasExp THEN DigitsEnd(runes, b + 1) ELSE b]])])])

\* strconv.ParseFloat(lit, 64) for such a literal: whether it succeeds (a
\* mantissa with a digit, an exponent with a digit if there is an "e", and
\* nothing after), and its value in halves, rounded toward zero.
LiteralFloatOk(lit) ==
    \E p \in {NumberParts(lit)} :
        /\ p.a + (IF p.hasDot THEN p.b - (p.a + 1) ELSE 0) >= 1
        /\ p.hasExp => p.c > p.b + 1
        /\ p.c = Len(p.runes)

LiteralFloat(lit) ==
    With([p \in {NumberParts(lit)} |->
        LET k == IF p.hasDot THEN p.b - (p.a + 1) ELSE 0
            n == NatOf(p.runes, 0, p.a) * 10^k
                 + (IF p.hasDot THEN NatOf(p.runes, p.a + 1, p.b) ELSE 0)
            e == IF p.hasExp THEN NatOf(p.runes, p.b + 1, p.c) ELSE 0
        IN  IF e >= k THEN 2 * n * 10^(e - k) ELSE (2 * n) \div 10^(k - e)])

\* strconv.ParseInt(lit, 10, 64) for a literal of digits: a value out of
\* range is the largest int64 (and an error, which the parser drops).
LiteralInt(lit) ==
    LET n == NatOf(Runes(lit), 0, Len(lit))
    IN  IF n > MaxInt64 THEN MaxInt64 ELSE n

\* The end of the run of digits, "." and "e" from offset i on.
RECURSIVE NumberEnd(_, _)
NumberEnd(lex, i) ==
    IF i < Len(lex.input) /\ (IsDigit(At(lex, i)) \/ At(lex, i) \in {".", "e"})
    THEN NumberEnd(lex, i + 1)
    ELSE i

\* consumeNumber: [lex, ok], or its panic.
consumeNumber(lex) ==
    LET i == NumberEnd(lex, lex.pos)
        lit == String(SubSeq(lex.input, lex.pos + 1, i))
    IN  IF i = lex.pos THEN PanicString("expected a number", <<>>)
        ELSE IF ~LiteralFloatOk(lit)
        THEN [lex |-> [lex EXCEPT !.err = lexErrorf(lex, "invalid numeric literal: %s",
                                                   <<lit>>)],
              ok |-> FALSE]
        ELSE [lex |-> [setToken(lex, "NumberLiteral") EXCEPT !.tok.Lit = lit, !.pos = i],
              ok |-> TRUE]

\* The loop of consumeQuotedString from offset i on, with the runes collected
\* so far and the line and linePos of its lineTracker: [lex, ok].
RECURSIVE quotedStringFrom(_, _, _, _, _)
quotedStringFrom(lex, i, runes, line, linePos) ==
    IF ~(i < Len(lex.input))
    THEN [lex |-> [lex EXCEPT !.err = lexErrorf(lex, "unterminated string", <<>>)],
          ok |-> FALSE]
    ELSE LET c == At(lex, i)
         IN  IF c = "'"
             THEN IF i < Len(lex.input) - 1 /\ At(lex, i + 1) = "'"
                  THEN quotedStringFrom(lex, i + 2, Append(runes, "'"), line, linePos)
                  ELSE [lex |-> [setToken(lex, "StringLiteral") EXCEPT
                                    !.tok.Lit = String(runes),
                                    !.line = line, !.linePos = linePos, !.pos = i + 1],
                        ok |-> TRUE]
             ELSE IF c = "\n"
             THEN quotedStringFrom(lex, i + 1, Append(runes, c), line + 1, i + 1)
             ELSE IF c = "\r"
             THEN \* the test of the code is on input[i], which is "\r" here
                  IF i < Len(lex.input) - 1 /\ At(lex, i) = "\n"
                  THEN quotedStringFrom(lex, i + 2,
                                        Append(Append(runes, At(lex, i)), At(lex, i + 1)),
                                        line + 1, i + 2)
                  ELSE quotedStringFrom(lex, i + 1, Append(runes, c), line + 1, i + 1)
             ELSE quotedStringFrom(lex, i + 1, Append(runes, c), line, linePos)

consumeQuotedString(lex) ==
    IF At(lex, lex.pos) # "'" THEN PanicString("called on non single-quote char", <<>>)
    ELSE quotedStringFrom(lex, lex.pos + 1, <<>>, lex.line, lex.linePos)

isIdentRune(r) == IsLetter(r) \/ IsDigit(r) \/ r = "_"

\* The end of the run of identifier runes from offset i on.
RECURSIVE WordEnd(_, _)
WordEnd(lex, i) ==
    IF i < Len(lex.input) /\ isIdentRune(At(lex, i)) THEN WordEnd(lex, i + 1) ELSE i

\* nextWord: the runes of the word at the current offset, <<>> if none.
nextWord(lex) ==
    IF lex.pos >= Len(lex.input) THEN PanicString("input exhausted", <<>>)
    ELSE IF ~IsLetter(At(lex, lex.pos)) /\ At(lex, lex.pos) # "_" THEN <<>>
    ELSE SubSeq(lex.input, lex.pos + 1, WordEnd(lex, lex.pos + 1))

\* Scan's default case with the offset moved to the last rune of the word
\* instead of past it.
scanRestShortOfWord(lex) ==
    IF IsDigit(At(lex, lex.pos)) THEN consumeNumber(lex)
    ELSE With([word \in {LowerRunes(nextWord(lex))} |->
            IF Len(word) # 0
            THEN IF String(word) \in DOMAIN sqlKeywords
                 THEN [lex |-> [setToken(lex, sqlKeywords[String(word)]) EXCEPT
                                   !.pos = @ + ByteLen(word) - 1],
                       ok |-> TRUE]
                 ELSE [lex |-> [setToken(lex, "Ident") EXCEPT
                                   !.tok.Lit = String(word), !.pos = @ + ByteLen(word) - 1],
                       ok |-> TRUE]
            ELSE [lex |-> [lex EXCEPT !.err = lexErrorf(lex, "unexpected character: %c",
                                                       <<At(lex, lex.pos)>>)],
                  ok |-> FALSE]])

\* The end of Scan, after its switch: a number, a word, or the error.
scanRest(lex) ==
    IF IsDigit(At(lex, lex.pos)) THEN consumeNumber(lex)
    ELSE With([word \in {LowerRunes(nextWord(lex))} |->
            IF Len(word) # 0
            THEN IF String(word) \in DOMAIN sqlKeywords
                 THEN [lex |-> [setToken(lex, sqlKeywords[String(word)]) EXCEPT
                                   !.pos = @ + ByteLen(word)],
                       ok |-> TRUE]
                 ELSE [lex |-> [setToken(lex, "Ident") EXCEPT
                                   !.tok.Lit = String(word), !.pos = @ + ByteLen(word)],
                       ok |-> TRUE]
            ELSE [lex |-> [lex EXCEPT !.err = lexErrorf(lex, "unexpected character: %c",
                                                       <<At(lex, lex.pos)>>)],
                  ok |-> FALSE]])

\* The one-rune tokens of Scan's switch.
runeKinds ==
    [r \in {",", "/", "=", "(", "-", "*", "+", ")", ";"} |->
        CASE r = "," -> "Comma" [] r = "/" -> "Div" [] r = "=" -> "Equal"
          [] r = "(" -> "LeftParen" [] r = "-" -> "Minus" [] r = "*" -> "Mul"
          [] r = "+" -> "Plus" [] r = ")" -> "RightParen" [] r = ";" -> "Semicolon"]

\* What a case of Scan's switch leaves when it does not return: control
\* falls out of the switch.
FellThrough == [fellThrough |-> TRUE]

\* Scan from its second statement on, where the lexer is not in the error
\* state: [lex |-> the lexer afterwards, ok |-> what Scan returns].
scanToken(lex) ==
    With([sk \in {skipSpace([lex EXCEPT !.tok = Token("Invalid", getPos(lex), "")])} |->
        LET l == sk.lex
            r == At(l, l.pos)
        IN  IF ~sk.ok THEN [lex |-> l, ok |-> FALSE]
            ELSE With([sw \in {
                    CASE r \in DOMAIN runeKinds -> consumeRune(l, runeKinds[r])
                      [] r = "|" ->
                            With([m \in {matchString(l, "||", "Concat")} |->
                                IF m.ok THEN m ELSE FellThrough])
                      [] r = "." ->
                            IF IsDigit(nextRune(l)) THEN consumeNumber(l)
                            ELSE consumeRune(l, "Dot")
                      [] r = ">" ->
                            With([m \in {matchString(l, ">=", "GreaterThanOrEqualTo")} |->
                                IF m.ok THEN m ELSE consumeRune(l, "GreaterThan")])
                      [] r = "<" ->
                            With([m \in {matchString(l, "<=", "LessThanOrEqualTo")} |->
                                IF m.ok THEN m ELSE consumeRune(l, "LessThan")])
                      [] r = "!" ->
                            With([m \in {matchString(l, "!=", "NotEqual")} |->
                                IF m.ok THEN m ELSE FellThrough])
                      [] r = "'" -> consumeQuotedString(l)
                      [] OTHER -> FellThrough} |->
                    IF sw = FellThrough THEN scanRest(l) ELSE sw])])

\* Scan without its check of the error state: a Scan after an error scans
\* again from where the lexer stopped.
ScanAgainAfterError(lex) == scanToken(lex)

\* Scan: [lex |-> the lexer afterwards, ok |-> what Scan returns].
Scan(lex) ==
    IF lex.err # NoError THEN [lex |-> lex, ok |-> FALSE]
    ELSE scanToken(lex)

-----------------------------------------------------------------------------
(* The parser (package parser).  The parser's only state is its lexer; every
   parse function is given the lexer and returns [v |-> what the function
   returns, lex |-> the lexer afterwards], or its panic, which carries the
   lexer as it was left. *)

\* Kind.Precedence.
Precedence(k) ==
    CASE k = "Or" -> 1
      [] k = "And" -> 2
      [] k \in {"Equal", "NotEqual", "LessThan", "LessThanOrEqualTo",
                "GreaterThan", "GreaterThanOrEqualTo"} -> 3
      [] k \in {"Plus", "Minus", "Concat"} -> 4
      [] k \in {"Mul", "Div"} -> 5
      [] OTHER -> 0

\* parser.errorf: the panic with a *parser.Error at the current token.
parserErrorf(lex, msg, args) ==
    [panic |-> TRUE, isError |-> TRUE, Msg |-> msg, Args |-> args, Pos |-> lex.tok.Pos,
     lex |-> lex]

expected(lex, kinds) ==
    parserErrorf(lex, "current token is %q, want one of %+v", <<lex.tok.Kind, kinds>>)

\* parser.next: the current token, the lexer moved to the next one; the
\* lexer's error, if it has one then, is the panic.
next(lex) ==
    With([s \in {Scan(lex)} |->
        IF s.lex.err # NoError
        THEN [panic |-> TRUE, isError |-> TRUE, Msg |-> s.lex.err.Msg,
              Args |-> s.lex.err.Args, Pos |-> s.lex.err.Pos, lex |-> s.lex]
        ELSE [v |-> lex.tok, lex |-> s.lex]])

skip(lex, k) ==
    IF lex.tok.Kind # k
    THEN parserErrorf(lex, "tried to skip(%s) but token is %s", <<k, lex.tok.Kind>>)
    ELSE next(lex)

match(lex, k) ==
    IF lex.tok.Kind # k THEN expected(lex, <<k>>) ELSE next(lex)

parseIdent(lex) ==
    With([m \in {match(lex, "Ident")} |->
        IF IsPanic(m) THEN m ELSE [v |-> IdentAt(m.v.Pos, m.v.Lit), lex |-> m.lex]])

parseNumberLiteral(lex) ==
    With([m \in {match(lex, "NumberLiteral")} |->
        IF IsPanic(m) THEN m
        ELSE IF \E i \in 1..Len(m.v.Lit) : ~IsDigit(SubSeq(m.v.Lit, i, i))
        THEN [v |-> [NumberLiteral(LiteralFloat(m.v.Lit)) EXCEPT !.ValuePos = m.v.Pos],
              lex |-> m.lex]
        ELSE [v |-> [IntegerLiteral(LiteralInt(m.v.Lit)) EXCEPT !.ValuePos = m.v.Pos],
              lex |-> m.lex]])

RECURSIVE parseBinaryExpr(_, _)
RECURSIVE binaryExprLoop(_, _, _)
RECURSIVE parseUnaryExpr(_)
RECURSIVE parseExprOrStar(_)
RECURSIVE selectExprListLoop(_, _)
RECURSIVE parseSelectExprList(_)

parseExpr(lex) == parseBinaryExpr(lex, 1)

\* The loop of parseBinaryExpr with the right operand parsed from the
\* operator's own precedence on: operators of equal precedence would group
\* right to left.
RECURSIVE binaryExprLoopRightAssociative(_, _, _)
binaryExprLoopRightAssociative(lex, expr, minPrec) ==
    LET op == lex.tok.Kind
        opPrec == Precedence(op)
    IN  IF opPrec < minPrec THEN [v |-> expr, lex |-> lex]
        ELSE With([s \in {skip(lex, op)} |->
                IF IsPanic(s) THEN s
                ELSE With([rhs \in {parseBinaryExpr(s.lex, opPrec)} |->
                        IF IsPanic(rhs) THEN rhs
                        ELSE binaryExprLoopRightAssociative(
                                rhs.lex, BinaryExpr(expr, op, rhs.v), minPrec)])])

\* The loop of parseBinaryExpr, with the expression parsed so far.
binaryExprLoop(lex, expr, minPrec) ==
    LET op == lex.tok.Kind
        opPrec == Precedence(op)
    IN  IF opPrec < minPrec THEN [v |-> expr, lex |-> lex]
        ELSE With([s \in {skip(lex, op)} |->
                IF IsPanic(s) THEN s
                ELSE With([rhs \in {parseBinaryExpr(s.lex, opPrec + 1)} |->
                        IF IsPanic(rhs) THEN rhs
                        ELSE binaryExprLoop(rhs.lex, BinaryExpr(expr, op, rhs.v),
                                            minPrec)])])

parseBinaryExpr(lex, minPrec) ==
    With([expr \in {parseUnaryExpr(lex)} |->
        IF IsPanic(expr) THEN expr ELSE binaryExprLoop(expr.lex, expr.v, minPrec)])

parseUnaryExpr(lex) ==
    LET k == lex.tok.Kind
    IN  IF k = "LeftParen"
        THEN With([s \in {skip(lex, "LeftParen")} |->
             With([e \in {IF IsPanic(s) THEN s ELSE parseBinaryExpr(s.lex, 1)} |->
                IF IsPanic(e) THEN e
                ELSE With([m \in {match(e.lex, "RightParen")} |->
                        IF IsPanic(m) THEN m ELSE [v |-> e.v, lex |-> m.lex]])])])
        ELSE IF k = "NumberLiteral" THEN parseNumberLiteral(lex)
        ELSE IF k \notin {"Ident", "Plus", "Minus", "StringLiteral", "True", "False",
                          "Null"}
        THEN expected(lex, <<"LeftParen", "Ident", "Null", "NumberLiteral",
                             "StringLiteral">>)
        \* every other case starts with p.next()
        ELSE With([n \in {next(lex)} |->
            IF IsPanic(n) THEN n
            ELSE IF k = "Ident"
            THEN IF n.lex.tok.Kind = "LeftParen"
                 THEN With([s \in {skip(n.lex, "LeftParen")} |->
                      With([funcArgs \in {IF IsPanic(s) THEN s
                                          ELSE parseSelectExprList(s.lex)} |->
                        IF IsPanic(funcArgs) THEN funcArgs
                        ELSE With([m \in {match(funcArgs.lex, "RightParen")} |->
                                IF IsPanic(m) THEN m
                                ELSE [v |-> [k |-> "FunctionCall",
                                             Name |-> IdentAt(n.v.Pos, n.v.Lit),
                                             Args |-> funcArgs.v],
                                      lex |-> m.lex]])])])
                 ELSE [v |-> IdentAt(n.v.Pos, n.v.Lit), lex |-> n.lex]
            ELSE IF k \in {"Plus", "Minus"}
            THEN With([e \in {parseBinaryExpr(n.lex, 1)} |->
                    IF IsPanic(e) THEN e
                    ELSE [v |-> [UnaryExpr(k, e.v) EXCEPT !.StartPos = n.v.Pos],
                          lex |-> e.lex]])
            ELSE IF k = "StringLiteral"
            THEN [v |-> [StringLiteral(n.v.Lit) EXCEPT !.ValuePos = n.v.Pos],
                  lex |-> n.lex]
            ELSE IF k \in {"True", "False"}
            THEN [v |-> [BooleanLiteral(k = "True") EXCEPT !.ValuePos = n.v.Pos],
                  lex |-> n.lex]
            ELSE [v |-> [NullLiteral EXCEPT !.ValuePos = n.v.Pos], lex |-> n.lex]])

parseExprOrStar(lex) ==
    IF lex.tok.Kind = "Mul"
    THEN With([s \in {skip(lex, "Mul")} |->
            IF IsPanic(s) THEN s ELSE [v |-> SelectStarExpr, lex |-> s.lex]])
    ELSE parseBinaryExpr(lex, 1)

\* The loop of parseSelectExprList, with the expressions parsed so far.
selectExprListLoop(lex, exprs) ==
    IF lex.tok.Kind # "Comma" THEN [v |-> exprs, lex |-> lex]
    ELSE With([s \in {skip(lex, "Comma")} |->
         With([e \in {IF IsPanic(s) THEN s ELSE parseExprOrStar(s.lex)} |->
            IF IsPanic(e) THEN e
            ELSE selectExprListLoop(e.lex, Append(exprs, e.v))])])

parseSelectExprList(lex) ==
    With([e \in {parseExprOrStar(lex)} |->
        IF IsPanic(e) THEN e ELSE selectExprListLoop(e.lex, <<e.v>>)])

\* The loop of parseExprList, with the expressions parsed so far.
RECURSIVE exprListLoop(_, _)
exprListLoop(lex, exprs) ==
    IF lex.tok.Kind # "Comma" THEN [v |-> exprs, lex |-> lex]
    ELSE With([s \in {skip(lex, "Comma")} |->
         With([e \in {IF IsPanic(s) THEN s ELSE parseExpr(s.lex)} |->
            IF IsPanic(e) THEN e
            ELSE exprListLoop(e.lex, Append(exprs, e.v))])])

parseExprList(lex) ==
    With([e \in {parseExpr(lex)} |->
        IF IsPanic(e) THEN e ELSE exprListLoop(e.lex, <<e.v>>)])

\* An optional WHERE clause: [v |-> the expression, or NoExpr, lex].
parseWhere(lex) ==
    IF lex.tok.Kind # "Where" THEN [v |-> NoExpr, lex |-> lex]
    ELSE With([s \in {skip(lex, "Where")} |->
            IF IsPanic(s) THEN s ELSE parseExpr(s.lex)])

\* The loop of parseColumnDefinitions, with the columns parsed so far.
RECURSIVE columnDefinitionsLoop(_, _)
columnDefinitionsLoop(lex, columns) ==
    With([name \in {parseIdent(lex)} |->
    With([type \in {IF IsPanic(name) THEN name
                    ELSE IF name.lex.tok.Kind \in {"Boolean", "Integer", "Number",
                                                  "Varchar", "Timestamp"}
                    THEN next(name.lex)
                    ELSE expected(name.lex, <<"Boolean", "Integer", "Number", "Varchar",
                                              "Timestamp">>)} |->
    With([null \in {IF IsPanic(type) THEN type
                    ELSE IF type.lex.tok.Kind = "Not"
                    THEN With([s \in {skip(type.lex, "Not")} |->
                         With([m \in {IF IsPanic(s) THEN s ELSE match(s.lex, "Null")} |->
                            IF IsPanic(m) THEN m ELSE [v |-> FALSE, lex |-> m.lex]])])
                    ELSE IF type.lex.tok.Kind = "Null"
                    THEN With([s \in {skip(type.lex, "Null")} |->
                            IF IsPanic(s) THEN s ELSE [v |-> TRUE, lex |-> s.lex]])
                    ELSE [v |-> TRUE, lex |-> type.lex]} |->
        IF IsPanic(null) THEN null
        ELSE LET column == [k |-> "ColumnDefinition", Name |-> name.v,
                            Type |-> type.v.Kind, Nullable |-> null.v]
             IN  IF null.lex.tok.Kind # "Comma"
                 THEN [v |-> Append(columns, column), lex |-> null.lex]
                 ELSE With([s \in {skip(null.lex, "Comma")} |->
                        IF IsPanic(s) THEN s
                        ELSE columnDefinitionsLoop(s.lex, Append(columns, column))])])])])

parseColumnDefinitions(lex) ==
    With([l \in {match(lex, "LeftParen")} |->
    With([columns \in {IF IsPanic(l) THEN l ELSE columnDefinitionsLoop(l.lex, <<>>)} |->
        IF IsPanic(columns) THEN columns
        ELSE With([r \in {match(columns.lex, "RightParen")} |->
                IF IsPanic(r) THEN r ELSE [v |-> columns.v, lex |-> r.lex]])])])

parseCreateTableStmt(lex) ==
    With([start \in {match(lex, "Create")} |->
    With([t \in {IF IsPanic(start) THEN start ELSE match(start.lex, "Table")} |->
    With([table \in {IF IsPanic(t) THEN t ELSE parseIdent(t.lex)} |->
    With([columns \in {IF IsPanic(table) THEN table
                       ELSE parseColumnDefinitions(table.lex)} |->
        IF IsPanic(columns) THEN columns
        ELSE [v |-> [k |-> "CreateTableStmt", StartPos |-> start.v.Pos,
                     Table |-> table.v, Columns |-> columns.v],
              lex |-> columns.lex]])])])])

parseSelectStmt(lex) ==
    With([start \in {match(lex, "Select")} |->
    With([columns \in {IF IsPanic(start) THEN start
                       ELSE parseSelectExprList(start.lex)} |->
    With([f \in {IF IsPanic(columns) THEN columns ELSE match(columns.lex, "From")} |->
    With([table \in {IF IsPanic(f) THEN f ELSE parseIdent(f.lex)} |->
    With([where \in {IF IsPanic(table) THEN table ELSE parseWhere(table.lex)} |->
        IF IsPanic(where) THEN where
        ELSE [v |-> [k |-> "SelectStmt", StartPos |-> start.v.Pos, Columns |-> columns.v,
                     Table |-> table.v, Where |-> where.v],
              lex |-> where.lex]])])])])])

\* The loop over the column names of an INSERT or the assignments of an
\* UPDATE is written once for each below.
RECURSIVE insertColumnsLoop(_, _)
insertColumnsLoop(lex, columns) ==
    IF lex.tok.Kind # "Comma" THEN [v |-> columns, lex |-> lex]
    ELSE With([s \in {skip(lex, "Comma")} |->
         With([c \in {IF IsPanic(s) THEN s ELSE parseIdent(s.lex)} |->
            IF IsPanic(c) THEN c
            ELSE insertColumnsLoop(c.lex, Append(columns, c.v))])])

\* The optional column list of an INSERT: [v |-> the names, lex].
parseInsertColumns(lex) ==
    IF lex.tok.Kind # "LeftParen" THEN [v |-> <<>>, lex |-> lex]
    ELSE With([s \in {skip(lex, "LeftParen")} |->
         With([c \in {IF IsPanic(s) THEN s ELSE parseIdent(s.lex)} |->
         With([columns \in {IF IsPanic(c) THEN c
                            ELSE insertColumnsLoop(c.lex, <<c.v>>)} |->
            IF IsPanic(columns) THEN columns
            ELSE With([r \in {match(columns.lex, "RightParen")} |->
                    IF IsPanic(r) THEN r ELSE [v |-> columns.v, lex |-> r.lex]])])])])

parseInsertStmt(lex) ==
    With([start \in {match(lex, "Insert")} |->
    With([i \in {IF IsPanic(start) THEN start ELSE match(start.lex, "Into")} |->
    With([table \in {IF IsPanic(i) THEN i ELSE parseIdent(i.lex)} |->
    With([columns \in {IF IsPanic(table) THEN table
                       ELSE parseInsertColumns(table.lex)} |->
    With([v \in {IF IsPanic(columns) THEN columns ELSE match(columns.lex, "Values")} |->
    With([l \in {IF IsPanic(v) THEN v ELSE match(v.lex, "LeftParen")} |->
    With([values \in {IF IsPanic(l) THEN l ELSE parseExprList(l.lex)} |->
    With([r \in {IF IsPanic(values) THEN values
                 ELSE match(values.lex, "RightParen")} |->
        IF IsPanic(r) THEN r
        ELSE [v |-> [k |-> "InsertStmt", StartPos |-> start.v.Pos, Table |-> table.v,
                     Columns |-> columns.v, Values |-> values.v],
              lex |-> r.lex]])])])])])])])])

\* One assignment column = expr of an UPDATE, added to those parsed so far:
\* [v |-> [columns, values], lex].
parseAssignment(lex, sofar) ==
    With([c \in {parseIdent(lex)} |->
    With([e \in {IF IsPanic(c) THEN c ELSE match(c.lex, "Equal")} |->
    With([x \in {IF IsPanic(e) THEN e ELSE parseExpr(e.lex)} |->
        IF IsPanic(x) THEN x
        ELSE [v |-> [columns |-> Append(sofar.columns, c.v),
                     values |-> Append(sofar.values, x.v)],
              lex |-> x.lex]])])])

RECURSIVE assignmentsLoop(_, _)
assignmentsLoop(lex, sofar) ==
    IF lex.tok.Kind # "Comma" THEN [v |-> sofar, lex |-> lex]
    ELSE With([s \in {skip(lex, "Comma")} |->
         With([a \in {IF IsPanic(s) THEN s ELSE parseAssignment(s.lex, sofar)} |->
            IF IsPanic(a) THEN a ELSE assignmentsLoop(a.lex, a.v)])])

parseUpdateStmt(lex) ==
    With([start \in {match(lex, "Update")} |->
    With([table \in {IF IsPanic(start) THEN start ELSE parseIdent(start.lex)} |->
    With([s \in {IF IsPanic(table) THEN table ELSE match(table.lex, "Set")} |->
        LET closeParen == ~IsPanic(s) /\ s.lex.tok.Kind = "LeftParen"
        IN
    With([l \in {IF IsPanic(s) \/ ~closeParen THEN s ELSE skip(s.lex, "LeftParen")} |->
    With([first \in {IF IsPanic(l) THEN l
                     ELSE parseAssignment(l.lex, [columns |-> <<>>, values |-> <<>>])} |->
    With([set \in {IF IsPanic(first) THEN first
                   ELSE assignmentsLoop(first.lex, first.v)} |->
    With([r \in {IF IsPanic(set) \/ ~closeParen THEN set
                 ELSE match(set.lex, "RightParen")} |->
    With([where \in {IF IsPanic(r) THEN r ELSE parseWhere(r.lex)} |->
        IF IsPanic(where) THEN where
        ELSE [v |-> [k |-> "UpdateStmt", StartPos |-> start.v.Pos, Table |-> table.v,
                     Columns |-> set.v.columns, Values |-> set.v.values,
                     Where |-> where.v],
              lex |-> where.lex]])])])])])])])])

parseDeleteStmt(lex) ==
    With([start \in {match(lex, "Delete")} |->
    With([f \in {IF IsPanic(start) THEN start ELSE match(start.lex, "From")} |->
    With([table \in {IF IsPanic(f) THEN f ELSE parseIdent(f.lex)} |->
    With([where \in {IF IsPanic(table) THEN table ELSE parseWhere(table.lex)} |->
        IF IsPanic(where) THEN where
        ELSE [v |-> [k |-> "DeleteStmt", StartPos |-> start.v.Pos, Table |-> table.v,
                     Where |-> where.v],
              lex |-> where.lex]])])])])

parseStmt(lex) ==
    CASE lex.tok.Kind = "Create" -> parseCreateTableStmt(lex)
      [] lex.tok.Kind = "Select" -> parseSelectStmt(lex)
      [] lex.tok.Kind = "Insert" -> parseInsertStmt(lex)
      [] lex.tok.Kind = "Update" -> parseUpdateStmt(lex)
      [] lex.tok.Kind = "Delete" -> parseDeleteStmt(lex)
      [] OTHER -> expected(lex, <<"Select", "Insert", "Update", "Delete">>)

\* The loop of parseStmtList, with the statements parsed so far.
RECURSIVE stmtListLoop(_, _)
stmtListLoop(lex, stmts) ==
    IF lex.tok.Kind = "Invalid" THEN [v |-> stmts, lex |-> lex]
    ELSE With([s \in {parseStmt(lex)} |->
         With([m \in {IF IsPanic(s) THEN s ELSE match(s.lex, "Semicolon")} |->
            IF IsPanic(m) THEN m ELSE stmtListLoop(m.lex, Append(stmts, s.v))])])

parseStmtList(lex) == stmtListLoop(lex, <<>>)

\* Parse: the nodes and the error it returns, the panic that leaves it
\* (fault; Ok when Parse returns), and the lexer afterwards.
NotParsed == [none |-> TRUE]

Parse(lex) ==
    With([s \in {Scan(lex)} |->
        IF ~s.ok
        THEN [nodes |-> <<>>, err |-> NoError, fault |-> Ok, lex |-> s.lex]
        ELSE IF s.lex.err # NoError
        THEN [nodes |-> <<>>, err |-> s.lex.err, fault |-> Ok, lex |-> s.lex]
        ELSE With([r \in {parseStmtList(s.lex)} |->
            IF ~IsPanic(r)
            THEN [nodes |-> r.v, err |-> NoError, fault |-> Ok, lex |-> r.lex]
            ELSE IF r.isError
            THEN [nodes |-> <<>>, err |-> [Msg |-> r.Msg, Args |-> r.Args, Pos |-> r.Pos],
                  fault |-> Ok, lex |-> r.lex]
            ELSE [nodes |-> <<>>, err |-> NoError, fault |-> r, lex |-> r.lex]])])

-----------------------------------------------------------------------------
(* The session: a driver (evalFile, main) evaluates the statements of a batch
   one after the other against one Environment.  A turn of its loop is two
   steps: EvalStmt is called, and then its result is reported and goes out of
   scope.

   env   the Environment
   stmt  the statement whose result is being reported (NoStmt between turns)
   pre   the Environment as it was before that statement
   out   what EvalStmt returned for it: table, err, and fault, the panic that
         left EvalStmt (Ok when it returned)

   In the specification Spec the driver takes each next statement from the
   lists of statements below, in any order and any number of times.  In the
   specification SpecParse it runs as evalFile does: the text of the batch is
   lexed and parsed, and the statements Parse returned are evaluated in their
   order.  For that,

   lex     the Lexer the driver made for the input
   parsed  what Parse returned: nodes, err and fault (NotParsed before)
   todo    the statements of the batch not evaluated yet

   The driver of the command (cmd/evaluate, main) prints what EvalStmt
   returned before it goes on:

   stdout  what main has printed for the statement being reported        *)

VARIABLES env, stmt, pre, out, lex, parsed, todo, stdout

vars == <<env, stmt, pre, out, lex, parsed, todo, stdout>>

NoStmt == [k |-> "none"]

Eq(l, r) == BinaryExpr(l, "Equal", r)

\* CREATE TABLE statements of the batch.
CreateStmts ==
    << CreateTableStmt("t", <<ColumnDefinition("a", "Integer", TRUE),
                              ColumnDefinition("b", "Integer", TRUE)>>),
       CreateTableStmt("t", <<ColumnDefinition("a", "Integer", FALSE),
                              ColumnDefinition("b", "Varchar", TRUE)>>),
       CreateTableStmt("t", <<ColumnDefinition("a", "Number", TRUE),
                              ColumnDefinition("b", "Boolean", TRUE)>>),
       CreateTableStmt("t", <<ColumnDefinition("a", "Timestamp", TRUE),
                              ColumnDefinition("b", "Varchar", TRUE)>>),
       CreateTableStmt("t", <<ColumnDefinition("a", "Integer", TRUE),
                              ColumnDefinition("a", "Integer", TRUE)>>),
       CreateTableStmt("u", <<ColumnDefinition("a", "Integer", TRUE)>>) >>

\* The value lists of the INSERT statements without a column list.
InsertValues ==
    << <<IntegerLiteral(1), IntegerLiteral(2)>>,
       <<IntegerLiteral(2), IntegerLiteral(1)>>,
       <<NullLiteral, NullLiteral>>,
       <<NumberLiteral(3), StringLiteral("5")>>,
       <<NumberLiteral(5), BooleanLiteral(TRUE)>>,
       <<IntegerLiteral(1), BooleanLiteral(FALSE)>>,
       <<StringLiteral("x"), BooleanLiteral(TRUE)>>,
       <<StringLiteral("2006-01-02 15:04:05 UTC"), IntegerLiteral(1)>>,
       <<IntegerLiteral(1)>>,
       <<IntegerLiteral(1), IntegerLiteral(2), IntegerLiteral(3)>> >>

InsertStmts ==
    [i \in 1..Len(InsertValues) |-> InsertStmt("t", <<>>, InsertValues[i])]
    \o << InsertStmt("u", <<>>, <<IntegerLiteral(1)>>) >>

SelectStmts ==
    << SelectStmt(<<SelectStarExpr>>, "t", NoExpr),
       SelectStmt(<<SelectStarExpr>>, "u", NoExpr),
       SelectStmt(<<SelectStarExpr>>, "t", Ident("b")),
       SelectStmt(<<Ident("a")>>, "t", NullLiteral),
       SelectStmt(<<Ident("a")>>, "t", Eq(Ident("a"), IntegerLiteral(1))),
       SelectStmt(<<FunctionCall("count", <<SelectStarExpr>>)>>, "t", NoExpr),
       SelectStmt(<<FunctionCall("count", <<SelectStarExpr>>)>>, "t",
                  Eq(IntegerLiteral(1), IntegerLiteral(0))),
       SelectStmt(<<FunctionCall("count", <<SelectStarExpr>>)>>, "t",
                  Eq(Ident("a"), IntegerLiteral(1))),
       SelectStmt(<<FunctionCall("min", <<Ident("a")>>)>>, "t", NoExpr),
       SelectStmt(<<FunctionCall("max", <<Ident("a")>>)>>, "t", NoExpr),
       SelectStmt(<<FunctionCall("min", <<Ident("b")>>),
                    FunctionCall("max", <<Ident("b")>>)>>, "t",
                  Eq(Ident("a"), IntegerLiteral(1))),
       SelectStmt(<<FunctionCall("sum", <<Ident("a")>>),
                    FunctionCall("count", <<Ident("b")>>)>>, "t", NoExpr) >>

UpdateStmts ==
    << UpdateStmt("t", <<Ident("a"), Ident("b")>>, <<Ident("b"), Ident("a")>>, NoExpr),
       UpdateStmt("t", <<Ident("a"), Ident("b")>>, <<Ident("b"), Ident("a")>>,
                  Eq(Ident("a"), IntegerLiteral(1))),
       UpdateStmt("t", <<Ident("a")>>, <<NumberLiteral(5)>>,
                  Eq(Ident("a"), IntegerLiteral(2))) >>

DeleteStmts ==
    << DeleteStmt("t", NoExpr),
       DeleteStmt("t", Eq(Ident("a"), IntegerLiteral(1))),
       DeleteStmt("t", Ident("b")),
       DeleteStmt("u", NoExpr) >>

NoOut == [table |-> NoTable, err |-> NoError, fault |-> Ok]

Init ==
    /\ env = EmptyEnvironment
    /\ stmt = NoStmt
    /\ pre = EmptyEnvironment
    /\ out = NoOut
    /\ lex = New("")
    /\ parsed = NotParsed
    /\ todo = <<>>
    /\ stdout = <<>>

\* What main prints for the result and the error EvalStmt returned: the
\* error, if there is one; then the table, if there is one, and OK otherwise.
\* fmt.Println(err.Error()) is the line [error |-> err], pprint.Table the
\* lines [table |-> result].
printResult(result, err) ==
    (IF err # NoError THEN <<[error |-> err]>> ELSE <<>>)
    \o (IF result # NoTable THEN <<[table |-> result]>> ELSE <<"OK">>)

\* The body of the driver's loop: result, err := eval.EvalStmt(&env, stmt),
\* and the result printed.  A panic that leaves EvalStmt ends the driver
\* before it prints.
Eval(s) ==
    /\ stmt = NoStmt
    /\ \E r \in {EvalStmt(env, s)} :
            /\ env' = r.env
            /\ stmt' = s
            /\ pre' = env
            /\ out' = [table |-> r.table, err |-> r.err, fault |-> r.fault]
            /\ stdout' = IF r.fault = Ok THEN printResult(r.table, r.err) ELSE <<>>

EvalCreateTable ==
    /\ \E i \in 1..Len(CreateStmts) : Eval(CreateStmts[i])
    /\ UNCHANGED <<lex, parsed, todo>>

EvalSelect ==
    /\ \E i \in 1..Len(SelectStmts) : Eval(SelectStmts[i])
    /\ UNCHANGED <<lex, parsed, todo>>

\* A table is grown to MaxRows rows at most.
EvalInsert ==
    /\ \E i \in 1..Len(InsertStmts) :
            /\ HasTable(env, InsertStmts[i].Table.Name) =>
                    Len(env.tables[InsertStmts[i].Table.Name].Data) < MaxRows
            /\ Eval(InsertStmts[i])
    /\ UNCHANGED <<lex, parsed, todo>>

EvalUpdate ==
    /\ \E i \in 1..Len(UpdateStmts) : Eval(UpdateStmts[i])
    /\ UNCHANGED <<lex, parsed, todo>>

EvalDelete ==
    /\ \E i \in 1..Len(DeleteStmts) : Eval(DeleteStmts[i])
    /\ UNCHANGED <<lex, parsed, todo>>

\* The end of the loop's body, reached when EvalStmt returned: the result
\* has been reported, and the loop goes on to the next statement whatever the
\* result was.  A panic that left EvalStmt would end the driver instead.
Report ==
    /\ stmt # NoStmt
    /\ out.fault = Ok
    /\ stmt' = NoStmt
    /\ pre' = env
    /\ out' = NoOut
    /\ stdout' = <<>>
    /\ UNCHANGED <<env, lex, parsed, todo>>

Next ==
    \/ EvalCreateTable
    \/ EvalSelect
    \/ EvalInsert
    \/ EvalUpdate
    \/ EvalDelete
    \/ Report

Spec == Init /\ [][Next]_vars

-----------------------------------------------------------------------------
(* The driver on an input text *)

\* The input texts.
Inputs ==
    << "",
       " \n\t",
       "#",
       " 'abc",
       "1e",
       "a | b",
       "delete from t;",
       "delete from t",
       "delete from t where b;",
       "delete from t where b",
       "select * from t;",
       "select * from t",
       "select a, b from t where a = 1 or b;",
       "select a, b from t where a = 1 or b",
       "select count( * ), min(a) from t;",
       "select -1 + 2 from t",
       "select a from t; #",
       "select a from t\r\n; select 'x",
       "select 1e from t;",
       "select 'a''b' || 'c\r\nd' from t;",
       "insert into t values (1, 2.5, 'x', true, null);",
       "insert into t (a, b) values (1, 2)",
       "update t set a = b, b = a where a >= 1;",
       "update t set (a = b) where a != 1",
       "create table t (a integer not null, b varchar);",
       "CREATE TABLE t (a INTEGER, b BOOLEAN)",
       "delete from t; delete from u;",
       "delete from t; delete from u",
       "delete from t delete from u;",
       "create table t (a integer, b integer); insert into t values (1, 2); update t set a = b, b = a; select * from t;",
       "create table @ (a number); insert into @ values (.5); select max(a) from @;",
       "select a - b - c from t;",
       "select a + b * c from t;",
       "select a or b and c from t;",
       "select a * b + c < d and e or f || g / h - i from t where a / b * c = d != e;",
       "select a * -b + c from t;",
       "select (a + b) * c from t;",
       "create table t (a integer); insert into t values (0); select -1 + 2, -1 * 2 + 3, - a - 1 from t;" >>

\* lex := lexer.New(input).
InitParse ==
    /\ env = EmptyEnvironment
    /\ stmt = NoStmt
    /\ pre = EmptyEnvironment
    /\ out = NoOut
    /\ \E i \in 1..Len(Inputs) : lex = New(Inputs[i])
    /\ parsed = NotParsed
    /\ todo = <<>>
    /\ stdout = <<>>

\* The lexer has not scanned yet.
Fresh == lex = New(String(lex.input))

\* lex.Scan(), called by a client that reads the tokens one by one.
ScanToken ==
    /\ parsed = NotParsed
    /\ lex' = Scan(lex).lex
    /\ UNCHANGED <<env, stmt, pre, out, parsed, todo, stdout>>

\* stmts, err := parser.Parse(lex): the driver goes on to the statements if
\* Parse returned without an error, and stops otherwise.
ParseInput ==
    /\ parsed = NotParsed /\ Fresh
    /\ \E r \in {Parse(lex)} :
           /\ lex' = r.lex
           /\ parsed' = [nodes |-> r.nodes, err |-> r.err, fault |-> r.fault]
           /\ todo' = IF r.err = NoError /\ r.fault = Ok THEN r.nodes ELSE <<>>
    /\ UNCHANGED <<env, stmt, pre, out, stdout>>

\* The head of the loop over stmts.
EvalParsed ==
    /\ todo # <<>>
    /\ Eval(Head(todo))
    /\ todo' = Tail(todo)
    /\ UNCHANGED <<lex, parsed>>

NextParse ==
    \/ ScanToken
    \/ ParseInput
    \/ EvalParsed
    \/ Report

SpecParse == InitParse /\ [][NextParse]_vars

-----------------------------------------------------------------------------
(* Properties of the evaluator, stated over the session *)

\* The statement being reported returned without an error.
Succeeded == stmt # NoStmt /\ out.err = NoError

\* The statement being reported returned an error.
Failed == stmt # NoStmt /\ out.err # NoError

\* What EvalStmt returns for SELECT * FROM name in Environment e.
SelectStar(e, name) == EvalStmt(e, SelectStmt(<<SelectStarExpr>>, name, NoExpr))

\* The value of an inserted literal once its column has type: null stays
\* null, anything else is coerced.
Stored(literal, type) ==
    LET v == evalExpr(<<>>, emptyNamespace, literal)
    IN  IF IsNull(v) THEN Null ELSE coerce(v, type)

\* The tag of the values a column of the given type holds.
TagOf(type) == IF type = "Varchar" THEN "String" ELSE type

\* The statement being reported is a successful INSERT without a column list.
InsertedInOrder == stmt.k = "InsertStmt" /\ Succeeded /\ Len(stmt.Columns) = 0

\* C1: round trip.  SELECT * on a table just created returns no row; after a
\* successful INSERT without a column list it returns the rows it returned
\* before, in the same order, followed by one new row that holds the inserted
\* values, each non-null one coerced to the type of its column and nulls left
\* null; an INSERT that failed adds no row.  By induction over the INSERTs,
\* SELECT * returns one row per successful INSERT, in insertion order.
C1_RoundTrip ==
    /\ (stmt.k = "CreateTableStmt" /\ Succeeded) =>
            LET after == SelectStar(env, stmt.Table.Name)
            IN  after.err = NoError /\ after.table.Data = <<>>
    /\ InsertedInOrder =>
            LET cols == pre.tables[stmt.Table.Name].Columns
                before == SelectStar(pre, stmt.Table.Name)
                after == SelectStar(env, stmt.Table.Name)
                new == [i \in 1..Len(cols) |-> Stored(stmt.Values[i], cols[i].Type)]
            IN  /\ before.err = NoError /\ after.err = NoError
                /\ Len(stmt.Values) = Len(cols)
                /\ after.table.Data = Append(before.table.Data, new)
                /\ \A i \in 1..Len(cols) :
                        new[i].t = IF stmt.Values[i].k = "Null" THEN "nil"
                                   ELSE TagOf(cols[i].Type)
    /\ (stmt.k = "InsertStmt" /\ Failed /\ HasTable(pre, stmt.Table.Name)) =>
            SelectStar(env, stmt.Table.Name).table.Data
                = SelectStar(pre, stmt.Table.Name).table.Data

\* A second row went into a table, and a value of it was converted on the way
\* (the Number 1.5 into an INTEGER column).
C1_Witness ==
    /\ InsertedInOrder
    /\ Len(pre.tables[stmt.Table.Name].Data) = 1
    /\ stmt.Values[1].k = "NumberLiteral"
    /\ pre.tables[stmt.Table.Name].Columns[1].Type = "Integer"
    /\ SelectStar(env, stmt.Table.Name).table.Data[2][1] = IntegerValue(1)

\* The statement being reported is a successful UPDATE t SET a = b, b = a.
SwapUpdated ==
    /\ stmt.k = "UpdateStmt" /\ Succeeded
    /\ Len(stmt.Columns) = 2
    /\ stmt.Columns[1].Name = "a" /\ stmt.Values[1].Name = "b"
    /\ stmt.Columns[2].Name = "b" /\ stmt.Values[2].Name = "a"

\* C2: the right-hand sides of an UPDATE see the row as it was before the
\* UPDATE.  After UPDATE t SET a = b, b = a every row that satisfied WHERE
\* holds its old b in a and its old a in b, and every other row is as it was.
C2_UpdateSeesOldRow ==
    SwapUpdated =>
        LET old == pre.tables[stmt.Table.Name]
            new == env.tables[stmt.Table.Name]
        IN  /\ Len(new.Data) = Len(old.Data)
            /\ \A i \in 1..Len(old.Data) :
                    new.Data[i] =
                        IF whereMatches(currentRow(old, old.Data[i]), stmt.Where).b
                        THEN <<old.Data[i][2], old.Data[i][1]>>
                        ELSE old.Data[i]

\* p evaluates to true for the row: its value is the Boolean true.
HoldsFor(table, row, p) ==
    LET v == evalExpr(<<>>, currentRow(table, row), p)
    IN  ~IsPanic(v) /\ v.t = "Boolean" /\ v.b

\* The rows, from row i on, for which p does not evaluate to true, in order.
RECURSIVE RowsNotSatisfying(_, _, _)
RowsNotSatisfying(table, p, i) ==
    IF i > Len(table.Data) THEN <<>>
    ELSE (IF HoldsFor(table, table.Data[i], p) THEN <<>> ELSE <<table.Data[i]>>)
         \o RowsNotSatisfying(table, p, i + 1)

\* The statement being reported is a DELETE on a table that exists.
Deleted == stmt.k = "DeleteStmt" /\ HasTable(pre, stmt.Table.Name)

\* What the claim lets a DELETE change: the rows of its table, which become
\* those for which WHERE is not true, or none when there is no WHERE.
DeleteEffect ==
    LET old == pre.tables[stmt.Table.Name]
    IN  /\ DOMAIN env.tables = DOMAIN pre.tables
        /\ \A n \in DOMAIN pre.tables \ {stmt.Table.Name} :
                env.tables[n] = pre.tables[n]
        /\ env.tables[stmt.Table.Name].Columns = old.Columns
        /\ env.tables[stmt.Table.Name].Data =
                IF stmt.Where.k = "nil" THEN <<>>
                ELSE RowsNotSatisfying(old, stmt.Where, 1)

\* C3: DELETE FROM t WHERE p removes exactly the rows of t for which p
\* evaluates to true and keeps the others in their order, DELETE FROM t
\* without WHERE removes every row, and no other table changes.
C3_Delete == Deleted => DeleteEffect

\* The same for the DELETE statements that EvalStmt evaluates without error.
C3_DeleteWithoutError == (Deleted /\ Succeeded) => DeleteEffect

\* C4: no fault escapes EvalStmt, and a failed statement does not stop the
\* batch.  Whatever the statement and the Environment, EvalStmt returns (no
\* panic reaches the driver); when the evaluation failed it returns an error
\* and no table; the driver then goes on (its loop is not stopped), and the
\* next statement is evaluated against the Environment the failed one left,
\* which still holds every table made by the earlier statements.
C4_NoFaultEscapes ==
    /\ [](/\ out.fault = Ok
          /\ (stmt # NoStmt) => (out = [table |-> EvalStmt(pre, stmt).table,
                                        err |-> EvalStmt(pre, stmt).err,
                                        fault |-> Ok])
          /\ Failed => (/\ out.table = NoTable
                        /\ DOMAIN env.tables = DOMAIN pre.tables
                        /\ ENABLED Report))
    /\ [][Failed => (stmt' = NoStmt /\ env' = env)]_vars
    /\ [][(stmt = NoStmt /\ stmt' # NoStmt) => env' = EvalStmt(env, stmt').env]_vars

\* A statement failed by a panic whose value is no error (a Boolean has no
\* integer value), with a table in the Environment.
C4_Witness ==
    /\ Failed
    /\ out.err.Msg = "%s"
    /\ HasTable(env, "t")

\* The statement being reported is a SELECT without aggregate functions on a
\* table that exists.
Selected ==
    /\ stmt.k = "SelectStmt" /\ HasTable(pre, stmt.Table.Name)
    /\ \A i \in 1..Len(stmt.Columns) : ~containsAggFunc(stmt.Columns[i])

\* The projection of the rows of the table, from row i on, for which p
\* evaluates to true.
RECURSIVE RowsSatisfying(_, _, _, _)
RowsSatisfying(table, projection, p, i) ==
    IF i > Len(table.Data) THEN <<>>
    ELSE (IF p.k = "nil" \/ HoldsFor(table, table.Data[i], p)
          THEN <<evalExprs(<<>>, currentRow(table, table.Data[i]), projection).vals>>
          ELSE <<>>)
         \o RowsSatisfying(table, projection, p, i + 1)

\* WHERE is absent, or NULL, or a column of type BOOLEAN: an expression whose
\* value for a row is true, false or null.
BooleanOrNullWhere ==
    \/ stmt.Where.k \in {"nil", "Null"}
    \/ /\ stmt.Where.k = "Ident"
       /\ \E i \in 1..Len(pre.tables[stmt.Table.Name].Columns) :
            /\ pre.tables[stmt.Table.Name].Columns[i].Name = stmt.Where.Name
            /\ pre.tables[stmt.Table.Name].Columns[i].Type = "Boolean"

\* C7: a SELECT returns the rows for which WHERE evaluates to true; a row for
\* which WHERE evaluates to false or to null is left out, and the statement
\* succeeds all the same.
C7_WhereNullExcludes ==
    (Selected /\ BooleanOrNullWhere) =>
        LET table == pre.tables[stmt.Table.Name]
        IN  /\ Succeeded
            /\ out.table.Data =
                    RowsSatisfying(table, expandStar(table, stmt.Columns), stmt.Where, 1)

\* p evaluates to false for the row: its value is the Boolean false.
FalseFor(table, row, p) ==
    LET v == evalExpr(<<>>, currentRow(table, row), p)
    IN  ~IsPanic(v) /\ v.t = "Boolean" /\ ~v.b

\* The statement being reported is SELECT COUNT(*) FROM T WHERE p, on a table
\* T that is not empty and with p false for every row of T.
CountedNoMatch ==
    /\ stmt.k = "SelectStmt" /\ HasTable(pre, stmt.Table.Name)
    /\ Len(stmt.Columns) = 1
    /\ stmt.Columns[1].k = "FunctionCall"
    /\ upper(stmt.Columns[1].Name.Name) = "COUNT"
    /\ Len(stmt.Columns[1].Args) = 1
    /\ stmt.Columns[1].Args[1].k = "SelectStarExpr"
    /\ stmt.Where.k # "nil"
    /\ Len(pre.tables[stmt.Table.Name].Data) > 0
    /\ \A i \in 1..Len(pre.tables[stmt.Table.Name].Data) :
            FalseFor(pre.tables[stmt.Table.Name],
                     pre.tables[stmt.Table.Name].Data[i], stmt.Where)

\* C8 as stated: SELECT COUNT(*) FROM T WHERE <false for every row>, on a
\* table that is not empty, returns exactly one row whose single value is the
\* Integer 0.
C8_CountNoMatchIsZero ==
    CountedNoMatch => (Succeeded /\ out.table.Data = << <<IntegerValue(0)>> >>)

\* C8, amended: SELECT COUNT(*) FROM T WHERE <false for every row>, on a table
\* that is not empty, succeeds and returns a result with exactly one column
\* and zero rows.
C8_CountNoMatchIsEmpty ==
    CountedNoMatch =>
        (Succeeded /\ Len(out.table.Columns) = 1 /\ out.table.Data = <<>>)

\* COUNT(*) was taken over two rows, both of which a WHERE that looks at the
\* row (a = 1) rejects.
C8_Witness ==
    /\ CountedNoMatch /\ Succeeded
    /\ Len(pre.tables[stmt.Table.Name].Data) = 2
    /\ stmt.Where.Lhs.k = "Ident"

\* The statement being reported is an aggregate-mode SELECT that returned a
\* table.
AggregateSelected ==
    /\ stmt.k = "SelectStmt" /\ HasTable(pre, stmt.Table.Name)
    /\ \E i \in 1..Len(stmt.Columns) : containsAggFunc(stmt.Columns[i])
    /\ Succeeded

\* Some row of the table satisfies the WHERE of the statement.
SomeRowSatisfies ==
    \E i \in 1..Len(pre.tables[stmt.Table.Name].Data) :
        \/ stmt.Where.k = "nil"
        \/ HoldsFor(pre.tables[stmt.Table.Name],
                    pre.tables[stmt.Table.Name].Data[i], stmt.Where)

IsMinMax(i) ==
    /\ stmt.Columns[i].k = "FunctionCall"
    /\ upper(stmt.Columns[i].Name.Name) \in {"MIN", "MAX"}
    /\ Len(stmt.Columns[i].Args) = 1
    /\ stmt.Columns[i].Args[1].k = "Ident"

\* The non-null values the argument of projection i takes over the rows that
\* satisfy WHERE.
ValuesOf(i) ==
    LET table == pre.tables[stmt.Table.Name]
    IN  { v \in { evalExpr(<<>>, currentRow(table, table.Data[r]), stmt.Columns[i].Args[1]) :
                    r \in { r \in 1..Len(table.Data) :
                              \/ stmt.Where.k = "nil"
                              \/ HoldsFor(table, table.Data[r], stmt.Where) } } :
            ~IsNull(v) }

\* A numeric value in halves, the unit of NumberValue.
InHalves(v) == IF v.t = "Integer" THEN 2 * v.i ELSE v.f

\* The smallest (min) or largest of a set of numeric values: an Integer when
\* all of them are Integers, a Number otherwise.
Extreme(vs, min) ==
    LET h == { InHalves(v) : v \in vs }
        x == CHOOSE x \in h : \A y \in h : IF min THEN x <= y ELSE x >= y
    IN  IF \A v \in vs : v.t = "Integer" THEN IntegerValue(x \div 2)
        ELSE NumberValue(x)

\* C10: MIN(expr) is the smallest and MAX(expr) the largest of the non-null
\* values of expr over the rows that satisfy WHERE, for any mix of Integer
\* and Number values, as an Integer when all values are Integers and as a
\* Number otherwise.
C10_MinMax ==
    (stmt.k = "SelectStmt" /\ HasTable(pre, stmt.Table.Name)) =>
        \A i \in 1..Len(stmt.Columns) :
            (/\ IsMinMax(i)
             /\ ValuesOf(i) # {}
             /\ \A v \in ValuesOf(i) : ~IsPanic(v) /\ v.t \in {"Integer", "Number"}) =>
                /\ Succeeded
                /\ out.table.Data[1][i] =
                        Extreme(ValuesOf(i), upper(stmt.Columns[i].Name.Name) = "MIN")

-----------------------------------------------------------------------------
(* Properties of the parser, stated over the driver on an input text *)

\* Parse has returned for the input.
Parsed == parsed # NotParsed

\* The lexer reported an error while Parse ran: Lexer.Err() is not nil.
LexerFailed == Parsed /\ lex.err # NoError

\* C5: if the lexer reports an error on any token of the input, the very
\* first one included, Parse returns that error and no statements, and no
\* statement of the input is evaluated.
C5_LexerErrorReturned ==
    LexerFailed =>
        /\ parsed.fault = Ok
        /\ parsed.err = lex.err
        /\ parsed.nodes = <<>>
        /\ todo = <<>> /\ stmt = NoStmt

\* The same for an error on a token after the first: the first Scan of the
\* input, the one Parse makes itself, succeeded.
C5_LexerErrorAfterFirstToken ==
    (LexerFailed /\ Scan(New(String(lex.input))).ok) =>
        /\ parsed.fault = Ok
        /\ parsed.err = lex.err
        /\ parsed.nodes = <<>>
        /\ todo = <<>> /\ stmt = NoStmt

\* What Parse returns for the input followed by a semicolon.
WithSemicolon == Parse(New(String(lex.input) \o ";"))

\* C6: the semicolon after the last statement is optional.  When the input
\* followed by a semicolon parses to a single statement, the input itself,
\* which ends right after that statement, parses to the same single statement.
C6_TrailingSemicolonOptional ==
    (/\ Parsed
     /\ WithSemicolon.err = NoError /\ WithSemicolon.fault = Ok
     /\ Len(WithSemicolon.nodes) = 1) =>
        /\ parsed.err = NoError /\ parsed.fault = Ok
        /\ parsed.nodes = WithSemicolon.nodes

-----------------------------------------------------------------------------
(* The session on aggregate queries: the driver's batch is made of the
   statements below, on one table t(a INTEGER, b INTEGER), taken in any order
   and any number of times. *)

AggCreateStmts ==
    << CreateTableStmt("t", <<ColumnDefinition("a", "Integer", TRUE),
                              ColumnDefinition("b", "Integer", TRUE)>>) >>

\* 9223372036854775807 is the largest Integer literal.
AggInsertStmts ==
    << InsertStmt("t", <<>>, <<IntegerLiteral(1), IntegerLiteral(1)>>),
       InsertStmt("t", <<>>, <<IntegerLiteral(2), IntegerLiteral(1)>>),
       InsertStmt("t", <<>>, <<NullLiteral, IntegerLiteral(1)>>),
       InsertStmt("t", <<>>, <<IntegerLiteral(1), NullLiteral>>),
       InsertStmt("t", <<>>, <<IntegerLiteral(MaxInt64), IntegerLiteral(2)>>) >>

\* UPDATE t SET a = 0.5 WHERE a = 2, and UPDATE t SET b = 'x' WHERE b = 2.
AggUpdateStmts ==
    << UpdateStmt("t", <<Ident("a")>>, <<NumberLiteral(1)>>,
                  Eq(Ident("a"), IntegerLiteral(2))),
       UpdateStmt("t", <<Ident("b")>>, <<StringLiteral("x")>>,
                  Eq(Ident("b"), IntegerLiteral(2))) >>

Count(arg) == FunctionCall("count", <<arg>>)
Sum(arg) == FunctionCall("sum", <<arg>>)

AggSelectStmts ==
    << SelectStmt(<<Sum(Ident("a"))>>, "t", NoExpr),
       SelectStmt(<<Sum(Ident("a"))>>, "t", Eq(Ident("b"), IntegerLiteral(1))),
       SelectStmt(<<Sum(Ident("b")), Sum(Ident("a"))>>, "t", NoExpr),
       SelectStmt(<<Count(Ident("a")), Count(SelectStarExpr)>>, "t", NoExpr),
       SelectStmt(<<Count(Ident("a")), Count(SelectStarExpr)>>, "t",
                  Eq(Ident("b"), IntegerLiteral(1))),
       SelectStmt(<<Count(BinaryExpr(Ident("a"), "Plus", Ident("b")))>>, "t",
                  BinaryExpr(Ident("a"), "LessThan", IntegerLiteral(2))),
       SelectStmt(<<Sum(Count(Ident("a")))>>, "t", NoExpr),
       SelectStmt(<<Count(SelectStarExpr),
                    Count(BinaryExpr(IntegerLiteral(1), "Plus", Sum(Ident("a"))))>>,
                  "t", NoExpr),
       SelectStmt(<<Ident("a"), Count(SelectStarExpr)>>, "t", NoExpr),
       SelectStmt(<<Count(SelectStarExpr), SelectStarExpr>>, "t", NoExpr),
       SelectStmt(<<BinaryExpr(Count(SelectStarExpr), "Plus", Ident("b"))>>, "t",
                  Eq(Ident("b"), IntegerLiteral(1))),
       SelectStmt(<<BinaryExpr(Sum(Ident("a")), "Plus", Count(Ident("b")))>>, "t",
                  NoExpr),
       SelectStmt(<<Ident("a"), Ident("b")>>, "t", NoExpr) >>

AggCreateTable ==
    /\ \E i \in 1..Len(AggCreateStmts) : Eval(AggCreateStmts[i])
    /\ UNCHANGED <<lex, parsed, todo>>

\* A table is grown to MaxRows rows at most.
AggInsert ==
    /\ \E i \in 1..Len(AggInsertStmts) :
            /\ HasTable(env, AggInsertStmts[i].Table.Name) =>
                    Len(env.tables[AggInsertStmts[i].Table.Name].Data) < MaxRows
            /\ Eval(AggInsertStmts[i])
    /\ UNCHANGED <<lex, parsed, todo>>

AggUpdate ==
    /\ \E i \in 1..Len(AggUpdateStmts) : Eval(AggUpdateStmts[i])
    /\ UNCHANGED <<lex, parsed, todo>>

AggSelect ==
    /\ \E i \in 1..Len(AggSelectStmts) : Eval(AggSelectStmts[i])
    /\ UNCHANGED <<lex, parsed, todo>>

NextAgg ==
    \/ AggCreateTable
    \/ AggInsert
    \/ AggUpdate
    \/ AggSelect
    \/ Report

SpecAgg == Init /\ [][NextAgg]_vars

-----------------------------------------------------------------------------
(* Properties of the aggregate functions, stated over the session *)

\* Projection i of the statement is the call fname(expr) of one argument.
IsCall(i, fname) ==
    /\ stmt.Columns[i].k = "FunctionCall"
    /\ stmt.Columns[i].Name.Name = fname
    /\ Len(stmt.Columns[i].Args) = 1

\* The rows of the statement's table that satisfy its WHERE, in order.
MatchingRows ==
    LET table == pre.tables[stmt.Table.Name]
    IN  SelectSeq(table.Data,
                  LAMBDA row : stmt.Where.k = "nil" \/ HoldsFor(table, row, stmt.Where))

\* The value expression e takes on a row of the statement's table.
ValueOn(row, e) == evalExpr(<<>>, currentRow(pre.tables[stmt.Table.Name], row), e)

\* The sum, in halves, of the non-null values e takes on the rows from row r
\* on.
RECURSIVE TotalInHalves(_, _, _)
TotalInHalves(rows, e, r) ==
    IF r > Len(rows) THEN 0
    ELSE (IF IsNull(ValueOn(rows[r], e)) THEN 0 ELSE InHalves(ValueOn(rows[r], e)))
         + TotalInHalves(rows, e, r + 1)

\* The arithmetic sum of the values e takes on the rows, nulls skipped: an
\* Integer when every value is an Integer, a Number otherwise.
ArithmeticSum(rows, e) ==
    IF \A r \in 1..Len(rows) : ValueOn(rows[r], e).t \in {"Integer", "nil"}
    THEN IntegerValue(TotalInHalves(rows, e, 1) \div 2)
    ELSE NumberValue(TotalInHalves(rows, e, 1))

\* Projection i is SUM(expr), at least one row satisfies WHERE, and expr is
\* an Integer, a Number or null on each of them.
Summed(i) ==
    /\ IsCall(i, "sum")
    /\ MatchingRows # <<>>
    /\ \A r \in 1..Len(MatchingRows) :
            /\ ~IsPanic(ValueOn(MatchingRows[r], stmt.Columns[i].Args[1]))
            /\ ValueOn(MatchingRows[r], stmt.Columns[i].Args[1]).t
                    \in {"Integer", "Number", "nil"}

\* C11: SUM(expr) is the arithmetic sum of the non-null values of expr over
\* the rows that satisfy WHERE, an Integer when every value is an Integer and
\* a Number otherwise, whatever the place of the first Number among the rows;
\* for the rows a = 1 and a = 2, SELECT SUM(a) returns one row of one column
\* with the value 3.
C11_Sum ==
    AggregateSelected =>
        /\ \A i \in 1..Len(stmt.Columns) :
                Summed(i) =>
                    out.table.Data[1][i] =
                        ArithmeticSum(MatchingRows, stmt.Columns[i].Args[1])
        /\ (/\ stmt = AggSelectStmts[1]
            /\ Len(pre.tables["t"].Data) = 2
            /\ pre.tables["t"].Data[1][1] = IntegerValue(1)
            /\ pre.tables["t"].Data[2][1] = IntegerValue(2)) =>
                /\ Len(out.table.Columns) = 1
                /\ out.table.Data = << <<IntegerValue(3)>> >>

\* The Integer values of expr on the rows add up within the 64-bit range,
\* those before the first Number included.
RECURSIVE IntegersInRange(_, _, _, _)
IntegersInRange(rows, e, r, acc) ==
    IF r > Len(rows) THEN TRUE
    ELSE IF ValueOn(rows[r], e).t # "Integer" THEN IntegersInRange(rows, e, r + 1, acc)
    ELSE /\ acc + ValueOn(rows[r], e).i \in MinInt64..MaxInt64
         /\ IntegersInRange(rows, e, r + 1, acc + ValueOn(rows[r], e).i)

\* The same for the sums whose Integer values add up within the 64-bit range.
C11_SumInRange ==
    AggregateSelected =>
        \A i \in 1..Len(stmt.Columns) :
            (Summed(i) /\ IntegersInRange(MatchingRows, stmt.Columns[i].Args[1], 1, 0)) =>
                out.table.Data[1][i] =
                    ArithmeticSum(MatchingRows, stmt.Columns[i].Args[1])

\* The number of rows on which expression e is not null.
NonNullCount(rows, e) ==
    Cardinality({ r \in 1..Len(rows) : ~IsNull(ValueOn(rows[r], e)) })

RECURSIVE HasNestedAggregate(_)
HasNestedAggregate(e) ==
    CASE e.k = "FunctionCall" ->
            IF isAggFunc(e.Name.Name)
            THEN \E i \in 1..Len(e.Args) : containsAggFunc(e.Args[i])
            ELSE \E i \in 1..Len(e.Args) : HasNestedAggregate(e.Args[i])
      [] e.k = "BinaryExpr" -> HasNestedAggregate(e.Lhs) \/ HasNestedAggregate(e.Rhs)
      [] e.k = "UnaryExpr" -> HasNestedAggregate(e.Expr)
      [] OTHER -> FALSE

\* Expression e has a column identifier outside every aggregate call; a "*"
\* stands for the columns of the table.
RECURSIVE HasBareColumn(_)
HasBareColumn(e) ==
    CASE e.k \in {"Ident", "SelectStarExpr"} -> TRUE
      [] e.k = "FunctionCall" ->
            /\ ~isAggFunc(e.Name.Name)
            /\ \E i \in 1..Len(e.Args) : HasBareColumn(e.Args[i])
      [] e.k = "BinaryExpr" -> HasBareColumn(e.Lhs) \/ HasBareColumn(e.Rhs)
      [] e.k = "UnaryExpr" -> HasBareColumn(e.Expr)
      [] OTHER -> FALSE

\* The statement being reported is an aggregate-mode SELECT, on a table that
\* exists, with a nested aggregate call or a column outside every aggregate
\* call in its projection.
InvalidAggregateSelected ==
    /\ stmt.k = "SelectStmt" /\ HasTable(pre, stmt.Table.Name)
    /\ \E i \in 1..Len(stmt.Columns) : containsAggFunc(stmt.Columns[i])
    /\ \E i \in 1..Len(stmt.Columns) :
            HasNestedAggregate(stmt.Columns[i]) \/ HasBareColumn(stmt.Columns[i])

\* The Environment before the statement with the rows of every table removed.
WithoutRows ==
    [tables |-> [n \in DOMAIN pre.tables |-> [pre.tables[n] EXCEPT !.Data = <<>>]]]

\* C13: an aggregate-mode SELECT with an aggregate call among the arguments
\* of an aggregate call, or with a column (one that "*" stands for included)
\* outside every aggregate call, fails with an error and returns no table;
\* no accumulator has consumed a row by then: the error is the one the same
\* statement gives on the table without its rows.
C13_AggregateValidation ==
    InvalidAggregateSelected =>
        /\ Failed
        /\ out.table = NoTable
        /\ out.err = EvalStmt(WithoutRows, stmt).err
        /\ env = pre

\* Such a SELECT failed on a table with two rows, after a valid COUNT( * ) was
\* rewritten: on the nested call of COUNT(1 + SUM(a)), or on the column a
\* that the "*" after COUNT( * ) stands for.
C13_Witness ==
    /\ InvalidAggregateSelected /\ Failed
    /\ Len(pre.tables[stmt.Table.Name].Data) = 2
    /\ Len(stmt.Columns) = 2
    /\ IsCall(1, "count")
    /\ \/ (HasNestedAggregate(stmt.Columns[2])
           /\ out.err.Msg = "aggregate function calls cannot be nested")
       \/ (stmt.Columns[2].k = "SelectStarExpr"
           /\ out.err.Args = <<"a">>)

-----------------------------------------------------------------------------
(* The session on INSERT statements with and without a column list, on the
   tables t(a INTEGER NOT NULL, b VARCHAR) and u(a INTEGER NOT NULL,
   b INTEGER NOT NULL). *)

InsCreateStmts ==
    << CreateTableStmt("t", <<ColumnDefinition("a", "Integer", FALSE),
                              ColumnDefinition("b", "Varchar", TRUE)>>),
       CreateTableStmt("u", <<ColumnDefinition("a", "Integer", FALSE),
                              ColumnDefinition("b", "Integer", FALSE)>>) >>

\* The column lists and value lists of the INSERT statements.
InsLists ==
    << [names |-> <<>>, values |-> <<IntegerLiteral(1), StringLiteral("x")>>],
       [names |-> <<>>, values |-> <<NullLiteral, StringLiteral("x")>>],
       [names |-> <<>>, values |-> <<IntegerLiteral(2), NullLiteral>>],
       [names |-> <<>>, values |-> <<IntegerLiteral(1)>>],
       [names |-> <<>>, values |-> <<>>],
       [names |-> <<>>,
        values |-> <<IntegerLiteral(1), StringLiteral("x"), IntegerLiteral(3)>>],
       [names |-> <<"a">>, values |-> <<NullLiteral>>],
       [names |-> <<"a">>, values |-> <<IntegerLiteral(3)>>],
       [names |-> <<"b">>, values |-> <<StringLiteral("4")>>],
       [names |-> <<"b", "a">>, values |-> <<StringLiteral("5"), IntegerLiteral(6)>>],
       [names |-> <<"b", "a">>, values |-> <<NullLiteral, NullLiteral>>],
       [names |-> <<"a", "b">>, values |-> <<IntegerLiteral(1)>>],
       [names |-> <<"a">>, values |-> <<IntegerLiteral(1), IntegerLiteral(2)>>],
       [names |-> <<"c">>, values |-> <<IntegerLiteral(1)>>],
       [names |-> <<"c">>, values |-> <<>>],
       [names |-> <<>>, values |-> <<StringLiteral("x"), NullLiteral>>] >>

InsInsertStmts ==
    [i \in 1..Len(InsLists) |->
        InsertStmt("t", [j \in 1..Len(InsLists[i].names) |-> Ident(InsLists[i].names[j])],
                   InsLists[i].values)]
    \o [i \in 1..Len(InsLists) |->
        InsertStmt("u", [j \in 1..Len(InsLists[i].names) |-> Ident(InsLists[i].names[j])],
                   InsLists[i].values)]

InsCreateTable ==
    /\ \E i \in 1..Len(InsCreateStmts) : Eval(InsCreateStmts[i])
    /\ UNCHANGED <<lex, parsed, todo>>

\* A table is grown to MaxRows rows at most.
InsInsert ==
    /\ \E i \in 1..Len(InsInsertStmts) :
            /\ HasTable(env, InsInsertStmts[i].Table.Name) =>
                    Len(env.tables[InsInsertStmts[i].Table.Name].Data) < MaxRows
            /\ Eval(InsInsertStmts[i])
    /\ UNCHANGED <<lex, parsed, todo>>

NextIns ==
    \/ InsCreateTable
    \/ InsInsert
    \/ Report

SpecIns == Init /\ [][NextIns]_vars

-----------------------------------------------------------------------------
(* Properties of INSERT, stated over the session *)

\* The statement being reported is an INSERT into a table that exists.
Inserted == stmt.k = "InsertStmt" /\ HasTable(pre, stmt.Table.Name)

\* The number of target columns of the INSERT: the length of its column
\* list, or the number of columns of the table when it has no list.
TargetCount ==
    IF Len(stmt.Columns) # 0 THEN Len(stmt.Columns)
    ELSE Len(pre.tables[stmt.Table.Name].Columns)

\* C14: an INSERT whose number of values differs from its number of target
\* columns fails with an error that names both numbers, and the rows of the
\* table (and all the rest of the Environment) are as they were.
C14_InsertArity ==
    (Inserted /\ Len(stmt.Values) # TargetCount) =>
        /\ Failed
        /\ out.err.Msg = "INSERT has %d expressions but %d target columns"
        /\ out.err.Args = <<Len(stmt.Values), TargetCount>>
        /\ env = pre

\* An INSERT with a column list of two names and one value failed on a table
\* that has a row.
C14_Witness ==
    /\ Inserted /\ Failed
    /\ Len(stmt.Columns) = 2 /\ Len(stmt.Values) = 1
    /\ Len(pre.tables[stmt.Table.Name].Data) = 1
    /\ out.err.Args = <<1, 2>>

\* The value the INSERT has for column c of its table: the value listed for
\* it, and null when a column list leaves it out (no column has a default).
ValueFor(c) ==
    LET col == pre.tables[stmt.Table.Name].Columns[c]
    IN  IF Len(stmt.Columns) = 0
        THEN evalExpr(<<>>, emptyNamespace, stmt.Values[c])
        ELSE IF \E j \in 1..Len(stmt.Columns) : stmt.Columns[j].Name = col.Name
        THEN evalExpr(<<>>, emptyNamespace,
                      stmt.Values[CHOOSE j \in 1..Len(stmt.Columns) :
                                      stmt.Columns[j].Name = col.Name])
        ELSE Null

\* The INSERT has as many values as targets, and every name of its column
\* list is a column of the table.
WellFormedInsert ==
    /\ Inserted
    /\ Len(stmt.Values) = TargetCount
    /\ \A j \in 1..Len(stmt.Columns) :
            colIndex(pre.tables[stmt.Table.Name], stmt.Columns[j].Name) # 0

\* The INSERT has as many values as targets, every name of its column list
\* is a column of the table, and each of its values that is not null can be
\* coerced to the type of its column: but for its nulls, the row would be
\* stored.
StorableInsert ==
    /\ WellFormedInsert
    /\ \A c \in 1..Len(pre.tables[stmt.Table.Name].Columns) :
            \/ IsNull(ValueFor(c))
            \/ ~IsPanic(coerce(ValueFor(c), pre.tables[stmt.Table.Name].Columns[c].Type))

\* The NOT NULL columns of the table in which the INSERT would store null.
NullInNotNull ==
    { c \in 1..Len(pre.tables[stmt.Table.Name].Columns) :
        /\ ~pre.tables[stmt.Table.Name].Columns[c].Nullable
        /\ IsNull(ValueFor(c)) }

\* C15: an INSERT that would store null in a NOT NULL column (the row would
\* be stored but for that), because the value is an explicit NULL or because
\* the column list leaves the column out, fails with a not-null constraint error that names such a column, and
\* no row is added to the table.
C15_NotNull ==
    (StorableInsert /\ NullInNotNull # {}) =>
        /\ Failed
        /\ out.err.Msg = "null value in column %q violates not-null constraint"
        /\ \E c \in NullInNotNull :
                out.err.Args = <<pre.tables[stmt.Table.Name].Columns[c].Name>>
        /\ env.tables[stmt.Table.Name].Data = pre.tables[stmt.Table.Name].Data

\* INSERT INTO t (b) VALUES ('4'), which leaves the NOT NULL column a out,
\* failed on a table that has a row.
C15_Witness ==
    /\ StorableInsert /\ Failed
    /\ Len(stmt.Columns) = 1 /\ stmt.Columns[1].Name = "b"
    /\ Len(pre.tables[stmt.Table.Name].Data) = 1
    /\ out.err.Args = <<"a">>

-----------------------------------------------------------------------------
(* Properties of CREATE TABLE and of the stored values, stated over the
   session *)

\* Two of the columns of the CREATE TABLE statement share a name.
DuplicateColumn ==
    \E i, j \in 1..Len(stmt.Columns) :
        i # j /\ stmt.Columns[i].Name.Name = stmt.Columns[j].Name.Name

\* C16: CREATE TABLE fails when the Environment has a table of that name or
\* when two of its columns share a name, and the Environment is then as it
\* was, the existing table with its schema and rows included; otherwise the
\* table is registered under its name, with the declared columns and no rows,
\* and the other tables are as they were.
C16_CreateTable ==
    (stmt.k = "CreateTableStmt") =>
        IF HasTable(pre, stmt.Table.Name) \/ DuplicateColumn
        THEN Failed /\ env = pre
        ELSE /\ Succeeded
             /\ DOMAIN env.tables = DOMAIN pre.tables \cup {stmt.Table.Name}
             /\ \A n \in DOMAIN pre.tables : env.tables[n] = pre.tables[n]
             /\ env.tables[stmt.Table.Name].Data = <<>>
             /\ Len(env.tables[stmt.Table.Name].Columns) = Len(stmt.Columns)
             /\ \A i \in 1..Len(stmt.Columns) :
                    /\ env.tables[stmt.Table.Name].Columns[i].Name
                            = stmt.Columns[i].Name.Name
                    /\ env.tables[stmt.Table.Name].Columns[i].Type
                            = dataTypeFromToken(stmt.Columns[i].Type).dt
                    /\ env.tables[stmt.Table.Name].Columns[i].Nullable
                            = stmt.Columns[i].Nullable

\* A CREATE TABLE t with other columns failed while t had two rows, and t
\* kept them.
C16_Witness ==
    /\ stmt.k = "CreateTableStmt" /\ Failed
    /\ HasTable(pre, "t") /\ stmt.Table.Name = "t"
    /\ ~DuplicateColumn
    /\ pre.tables["t"].Columns[1].Type # dataTypeFromToken(stmt.Columns[1].Type).dt
    /\ Len(env.tables["t"].Data) = 2

\* C17: every value stored in a table conforms to the declaration of its
\* column, after any sequence of CREATE TABLE, INSERT, UPDATE and DELETE
\* statements: a value that is not null has the variant of the column's type,
\* and a null is stored only in a nullable column.
C17_StoredValuesConform ==
    \A n \in DOMAIN env.tables :
        \A r \in 1..Len(env.tables[n].Data) :
            \A c \in 1..Len(env.tables[n].Columns) :
                IF IsNull(env.tables[n].Data[r][c])
                THEN env.tables[n].Columns[c].Nullable
                ELSE env.tables[n].Data[r][c].t = env.tables[n].Columns[c].Type

\* The same for the Environments that no UPDATE has touched yet: if the
\* values conformed before a CREATE TABLE, INSERT or DELETE, they conform
\* after it.
C17_ConformButForUpdate ==
    [][(/\ C17_StoredValuesConform
        /\ stmt' # NoStmt /\ stmt'.k # "UpdateStmt") => C17_StoredValuesConform']_vars

-----------------------------------------------------------------------------
(* The session on expressions: the driver's batch is made of SELECT l op r
   FROM t statements, for the operands and the comparison and arithmetic
   operators below, on one table t(a TIMESTAMP, b INTEGER). *)

ExprCreateStmts ==
    << CreateTableStmt("t", <<ColumnDefinition("a", "Timestamp", TRUE),
                              ColumnDefinition("b", "Integer", TRUE)>>) >>

ExprInsertStmts ==
    << InsertStmt("t", <<>>, <<StringLiteral("2006-01-02T15:04:05Z"), NullLiteral>>),
       InsertStmt("t", <<>>, <<NullLiteral, IntegerLiteral(0)>>) >>

\* The operands, as the parser places them when the operand starts at the
\* given column of line 1: NULL, 0, 3, 0.0, 2.5, '5', '2.5', 'x', TRUE, the
\* columns a and b, -4 and 1 * 2.
Operands(column) ==
    << [NullLiteral EXCEPT !.ValuePos = Pos(1, column)],
       [IntegerLiteral(0) EXCEPT !.ValuePos = Pos(1, column)],
       [IntegerLiteral(3) EXCEPT !.ValuePos = Pos(1, column)],
       [NumberLiteral(0) EXCEPT !.ValuePos = Pos(1, column)],
       [NumberLiteral(5) EXCEPT !.ValuePos = Pos(1, column)],
       [StringLiteral("5") EXCEPT !.ValuePos = Pos(1, column)],
       [StringLiteral("2.5") EXCEPT !.ValuePos = Pos(1, column)],
       [StringLiteral("x") EXCEPT !.ValuePos = Pos(1, column)],
       [BooleanLiteral(TRUE) EXCEPT !.ValuePos = Pos(1, column)],
       IdentAt(Pos(1, column), "a"),
       IdentAt(Pos(1, column), "b"),
       [UnaryExpr("Minus", [IntegerLiteral(4) EXCEPT !.ValuePos = Pos(1, column + 1)])
            EXCEPT !.StartPos = Pos(1, column)],
       BinaryExpr([IntegerLiteral(1) EXCEPT !.ValuePos = Pos(1, column)], "Mul",
                  [IntegerLiteral(2) EXCEPT !.ValuePos = Pos(1, column + 4)]) >>

\* Where the left and the right operand of SELECT l op r FROM t start.
LeftPos == Pos(1, 7)
RightPos == Pos(1, 16)

ComparisonOps ==
    {"Equal", "NotEqual", "LessThan", "LessThanOrEqualTo", "GreaterThan",
     "GreaterThanOrEqualTo"}

ArithmeticOps == {"Plus", "Minus", "Mul", "Div"}

\* SELECT l op r FROM t.
SelectBinary(l, op, r) == SelectStmt(<<BinaryExpr(l, op, r)>>, "t", NoExpr)

ExprCreateTable ==
    /\ \E i \in 1..Len(ExprCreateStmts) : Eval(ExprCreateStmts[i])
    /\ UNCHANGED <<lex, parsed, todo>>

\* A table is grown to MaxRows rows at most.
ExprInsert ==
    /\ \E i \in 1..Len(ExprInsertStmts) :
            /\ HasTable(env, ExprInsertStmts[i].Table.Name) =>
                    Len(env.tables[ExprInsertStmts[i].Table.Name].Data) < MaxRows
            /\ Eval(ExprInsertStmts[i])
    /\ UNCHANGED <<lex, parsed, todo>>

ExprCompare ==
    /\ \E i, j \in 1..Len(Operands(0)) : \E op \in ComparisonOps :
            Eval(SelectBinary(Operands(LeftPos.Column)[i], op,
                              Operands(RightPos.Column)[j]))
    /\ UNCHANGED <<lex, parsed, todo>>

ExprArithmetic ==
    /\ \E i, j \in 1..Len(Operands(0)) : \E op \in ArithmeticOps :
            Eval(SelectBinary(Operands(LeftPos.Column)[i], op,
                              Operands(RightPos.Column)[j]))
    /\ UNCHANGED <<lex, parsed, todo>>

NextExpr ==
    \/ ExprCreateTable
    \/ ExprInsert
    \/ ExprCompare
    \/ ExprArithmetic
    \/ Report

SpecExpr == Init /\ [][NextExpr]_vars

-----------------------------------------------------------------------------
(* Properties of the operators, stated over the session *)

\* The statement being reported is SELECT l op r FROM t with op among ops, on
\* a table t that has a row.
BinarySelected(ops) ==
    /\ stmt.k = "SelectStmt" /\ HasTable(pre, stmt.Table.Name)
    /\ Len(pre.tables[stmt.Table.Name].Data) > 0
    /\ Len(stmt.Columns) = 1
    /\ stmt.Columns[1].k = "BinaryExpr"
    /\ stmt.Columns[1].Op \in ops

\* The rows of the statement's table.
Rows == pre.tables[stmt.Table.Name].Data

\* The values of the left and of the right operand on a row.
LeftOn(row) == ValueOn(row, stmt.Columns[1].Lhs)
RightOn(row) == ValueOn(row, stmt.Columns[1].Rhs)

\* What op says of two numbers.
Compares(x, op, y) ==
    CASE op = "Equal" -> x = y
      [] op = "NotEqual" -> x # y
      [] op = "LessThan" -> x < y
      [] op = "LessThanOrEqualTo" -> x <= y
      [] op = "GreaterThan" -> x > y
      [] op = "GreaterThanOrEqualTo" -> x >= y

\* The operator that says of (y, x) what op says of (x, y).
Mirrored(op) ==
    CASE op = "LessThan" -> "GreaterThan"
      [] op = "LessThanOrEqualTo" -> "GreaterThanOrEqualTo"
      [] op = "GreaterThan" -> "LessThan"
      [] op = "GreaterThanOrEqualTo" -> "LessThanOrEqualTo"
      [] OTHER -> op

\* e is the literal of a numeric string, or of an Integer or a Number.
IsNumericString(e) == e.k = "StringLiteral" /\ ParseFloatOk(e.Value)
IsNumber(e) == e.k \in {"IntegerLiteral", "NumberLiteral"}

\* The numeric value, in halves, of such a literal.
NumericValue(e) ==
    IF e.k = "StringLiteral" THEN ParseFloat(e.Value)
    ELSE IF e.k = "IntegerLiteral" THEN 2 * e.Value
    ELSE e.Value

\* C18: a comparison of a numeric string with an Integer or a Number, the
\* string on the left, compares the numeric value of the string with the
\* number, as the comparison with the operands exchanged and the operator
\* mirrored does: '5' = 3 is false and '5' > 3 is true.
C18_StringNumberMirror ==
    (/\ BinarySelected(ComparisonOps)
     /\ IsNumericString(stmt.Columns[1].Lhs)
     /\ IsNumber(stmt.Columns[1].Rhs)) =>
        LET e == stmt.Columns[1]
            mirror == EvalStmt(pre, SelectBinary(e.Rhs, Mirrored(e.Op), e.Lhs))
        IN  /\ Succeeded
            /\ mirror.err = NoError
            /\ out.table.Data = mirror.table.Data
            /\ \A r \in 1..Len(Rows) :
                    out.table.Data[r] =
                        <<BooleanValue(Compares(NumericValue(e.Lhs), e.Op,
                                                NumericValue(e.Rhs)))>>

\* The same with the number on the left, for the strings that the conversion
\* to the number's type accepts (an Integer takes no string with a fraction).
C18_NumberString ==
    (/\ BinarySelected(ComparisonOps)
     /\ IsNumber(stmt.Columns[1].Lhs)
     /\ IsNumericString(stmt.Columns[1].Rhs)
     /\ stmt.Columns[1].Lhs.k = "IntegerLiteral" => ParseIntOk(stmt.Columns[1].Rhs.Value)) =>
        /\ Succeeded
        /\ \A r \in 1..Len(Rows) :
                out.table.Data[r] =
                    <<BooleanValue(Compares(NumericValue(stmt.Columns[1].Lhs),
                                            stmt.Columns[1].Op,
                                            NumericValue(stmt.Columns[1].Rhs)))>>

\* C19: when an operand of a comparison (=, !=, <, <=, >, >=) is null, the
\* comparison is the Boolean false, not null and not an error, whatever the
\* other operand is: for each row of t on which one of the operands of
\* SELECT l op r FROM t is null (the literal NULL, or a column that is null on
\* the row), the value returned is false.
C19_NullComparesFalse ==
    (/\ BinarySelected(ComparisonOps)
     /\ \A r \in 1..Len(Rows) : IsNull(LeftOn(Rows[r])) \/ IsNull(RightOn(Rows[r]))) =>
        /\ Succeeded
        /\ Len(out.table.Data) = Len(Rows)
        /\ \A r \in 1..Len(Rows) : out.table.Data[r] = <<BooleanValue(FALSE)>>

\* A column that is null on both rows of the table was compared by != with a
\* Timestamp column that is not null on one of them.
C19_Witness ==
    /\ BinarySelected({"NotEqual"}) /\ Succeeded
    /\ Len(Rows) = 2
    /\ stmt.Columns[1].Lhs.k = "Ident" /\ stmt.Columns[1].Rhs.k = "Ident"
    /\ stmt.Columns[1].Lhs.Name # stmt.Columns[1].Rhs.Name
    /\ \E r \in 1..2 : LeftOn(Rows[r]).t = "Timestamp" \/ RightOn(Rows[r]).t = "Timestamp"
    /\ out.table.Data = << <<BooleanValue(FALSE)>>, <<BooleanValue(FALSE)>> >>

\* v is a number that is not null; v is the Integer 0 or the Number 0.
IsNumeric(v) == ~IsPanic(v) /\ v.t \in {"Integer", "Number"}
IsZero(v) == ~IsPanic(v) /\ (v = IntegerValue(0) \/ v = NumberValue(0))

\* C20: a division of a number that is not null by the Integer 0 or the
\* Number 0 gives no value: the statement fails with a divide-by-zero error
\* at the position of the left operand of the division.  When an operand of
\* +, -, * or / is null the result is null and there is no error, NULL / 0
\* included.
C20_DivideByZero ==
    /\ (/\ BinarySelected({"Div"})
        /\ IsNumeric(LeftOn(Rows[1])) /\ IsZero(RightOn(Rows[1]))) =>
            /\ Failed
            /\ out.table = NoTable
            /\ out.err.Msg = "divide by zero"
            /\ out.err.Pos = LeftPos
    /\ (/\ BinarySelected(ArithmeticOps)
        /\ \A r \in 1..Len(Rows) : IsNull(LeftOn(Rows[r])) \/ IsNull(RightOn(Rows[r]))) =>
            /\ Succeeded
            /\ Len(out.table.Data) = Len(Rows)
            /\ \A r \in 1..Len(Rows) : out.table.Data[r] = <<Null>>

\* 1 * 2 was divided by the column b, which is 0 on the first row, and the
\* error is at the 1.
C20_Witness ==
    /\ BinarySelected({"Div"}) /\ Failed
    /\ stmt.Columns[1].Lhs.k = "BinaryExpr"
    /\ stmt.Columns[1].Rhs.k = "Ident"
    /\ RightOn(Rows[1]) = IntegerValue(0)
    /\ out.err.Msg = "divide by zero"
    /\ out.err.Pos = stmt.Columns[1].Lhs.Lhs.ValuePos

\* NULL / 0 was evaluated on two rows and gave null twice.
C20_WitnessNull ==
    /\ BinarySelected({"Div"}) /\ Succeeded
    /\ stmt.Columns[1].Lhs.k = "Null"
    /\ stmt.Columns[1].Rhs = Operands(RightPos.Column)[2]
    /\ out.table.Data = << <<Null>>, <<Null>> >>

-----------------------------------------------------------------------------
(* Properties of the driver's output *)

\* main has printed for the statement being reported.
Printed == stmt # NoStmt /\ out.fault = Ok

\* C25: for each statement of a batch the driver outputs exactly one of three
\* things: the error when the statement failed, OK when it succeeded without
\* a table, or the result table; a failed statement is never also reported
\* as OK.
C25_OneOutput ==
    Printed =>
        /\ Len(stdout) = 1
        /\ Failed => stdout[1] = [error |-> out.err]
        /\ (Succeeded /\ out.table = NoTable) => stdout[1] = "OK"
        /\ (Succeeded /\ out.table # NoTable) => stdout[1] = [table |-> out.table]

\* The same for the statements that succeeded: OK or the table, and nothing
\* else.
C25_OneOutputOnSuccess ==
    (Printed /\ Succeeded) =>
        /\ Len(stdout) = 1
        /\ out.table = NoTable => stdout[1] = "OK"
        /\ out.table # NoTable => stdout[1] = [table |-> out.table]

\* For a statement that failed main prints the error, and OK after it.
C25_FailedPrintsOK ==
    (Printed /\ Failed) => stdout = <<[error |-> out.err], "OK">>

-----------------------------------------------------------------------------
(* Properties of the parser's expressions *)

\* Parse has returned the statements of the input.
ParsedStmts == Parsed /\ parsed.err = NoError /\ parsed.fault = Ok

\* The input text.
InputIs(text) == String(lex.input) = text

\* The expressions of a statement: what it selects, inserts or assigns, and
\* its WHERE clause if it has one.
ExprsOf(node) ==
    CASE node.k = "SelectStmt" ->
            {node.Columns[i] : i \in 1..Len(node.Columns)} \cup {node.Where}
      [] node.k = "UpdateStmt" ->
            {node.Values[i] : i \in 1..Len(node.Values)} \cup {node.Where}
      [] node.k = "InsertStmt" -> {node.Values[i] : i \in 1..Len(node.Values)}
      [] node.k = "DeleteStmt" -> {node.Where}
      [] OTHER -> {}

\* The expressions Parse returned.
ParsedExprs == UNION {ExprsOf(parsed.nodes[i]) : i \in 1..Len(parsed.nodes)}

\* The expression without the positions of its nodes.
RECURSIVE Unpositioned(_)
Unpositioned(e) ==
    CASE e.k = "BinaryExpr" -> BinaryExpr(Unpositioned(e.Lhs), e.Op, Unpositioned(e.Rhs))
      [] e.k = "UnaryExpr" -> UnaryExpr(e.Op, Unpositioned(e.Expr))
      [] e.k = "Ident" -> Ident(e.Name)
      [] e.k = "IntegerLiteral" -> IntegerLiteral(e.Value)
      [] e.k = "NumberLiteral" -> NumberLiteral(e.Value)
      [] OTHER -> e

\* The positions of the operands of the expression, from left to right; a
\* unary operator counts with its own position.
RECURSIVE OperandPositions(_)
OperandPositions(e) ==
    CASE e.k = "BinaryExpr" -> OperandPositions(e.Lhs) \o OperandPositions(e.Rhs)
      [] e.k = "UnaryExpr" -> <<e.StartPos>> \o OperandPositions(e.Expr)
      [] e.k = "nil" -> <<>>
      [] OTHER -> <<NodePos(e)>>

\* Position p is before position q in the text.
Before(p, q) == p.Line < q.Line \/ (p.Line = q.Line /\ p.Column < q.Column)

\* Every binary operator of the expression has, as its right operand, no
\* binary operator of its own or a lower precedence, and as its left operand
\* no binary operator of a lower precedence.
RECURSIVE GroupedByPrecedence(_)
GroupedByPrecedence(e) ==
    CASE e.k = "BinaryExpr" ->
            /\ GroupedByPrecedence(e.Lhs) /\ GroupedByPrecedence(e.Rhs)
            /\ e.Rhs.k = "BinaryExpr" => Precedence(e.Rhs.Op) > Precedence(e.Op)
            /\ e.Lhs.k = "BinaryExpr" => Precedence(e.Lhs.Op) >= Precedence(e.Op)
      [] e.k = "UnaryExpr" -> GroupedByPrecedence(e.Expr)
      [] OTHER -> TRUE

\* The input has no parentheses.
NoParentheses == \A i \in 1..Len(lex.input) : lex.input[i] # "("

\* The first expression the first statement selects, without positions.
FirstSelected == Unpositioned(parsed.nodes[1].Columns[1])

RECURSIVE UnaryOnOperand(_)
UnaryOnOperand(e) ==
    CASE e.k = "UnaryExpr" -> e.Expr.k # "BinaryExpr" /\ UnaryOnOperand(e.Expr)
      [] e.k = "BinaryExpr" -> UnaryOnOperand(e.Lhs) /\ UnaryOnOperand(e.Rhs)
      [] OTHER -> TRUE

\* The batch that selects -1 + 2, -1 * 2 + 3 and - a - 1 from a row with a = 0.
UnaryBatch ==
    InputIs("create table t (a integer); insert into t values (0); select -1 + 2, -1 * 2 + 3, - a - 1 from t;")

\* C28: a unary + or - applies only to the operand that immediately follows it
\* and binds tighter than every binary operator.  In an input without
\* parentheses no unary operator has a binary expression as its operand, and
\* -1 + 2 evaluates to 1, -1 * 2 + 3 to 1, and - a - 1 to -1 where a is 0.
C28_UnaryBindsTighter ==
    /\ (ParsedStmts /\ NoParentheses) => \A e \in ParsedExprs : UnaryOnOperand(e)
    /\ (UnaryBatch /\ stmt.k = "SelectStmt") =>
            /\ Succeeded
            /\ out.table.Data = <<<<IntegerValue(1), IntegerValue(1), IntegerValue(-1)>>>>

\* What the code computes: the operand of the unary operator is the whole
\* rest of the expression, so the three values are -(1 + 2), -(1 * 2 + 3) and
\* -(a - 1).
C28_UnaryTakesTheRest ==
    (UnaryBatch /\ stmt.k = "SelectStmt") =>
        /\ Succeeded
        /\ out.table.Data = <<<<IntegerValue(-3), IntegerValue(-5), IntegerValue(1)>>>>
        /\ \A i \in 1..3 : stmt.Columns[i].k = "UnaryExpr"

-----------------------------------------------------------------------------
(* The session on statements that fail part-way: the driver's batch is made
   of the statements below, in any order. *)

UpdCreateStmts ==
    << CreateTableStmt("t", <<ColumnDefinition("a", "Integer", TRUE),
                              ColumnDefinition("b", "Integer", TRUE)>>) >>

\* Rows, and two INSERTs that fail: too few values, and a value that is no
\* integer.
UpdInsertStmts ==
    << InsertStmt("t", <<>>, <<IntegerLiteral(1), IntegerLiteral(2)>>),
       InsertStmt("t", <<>>, <<IntegerLiteral(2), IntegerLiteral(1)>>),
       InsertStmt("t", <<>>, <<IntegerLiteral(0), IntegerLiteral(0)>>),
       InsertStmt("t", <<>>, <<IntegerLiteral(1)>>),
       InsertStmt("t", <<>>, <<IntegerLiteral(1), StringLiteral("x")>>) >>

OneOver(e) == BinaryExpr(IntegerLiteral(1), "Div", e)

\* UPDATE t SET a = 5 / (a - 2); SET b = 7, c = 1; SET a = 3 WHERE 1 / b = 1;
\* SET a = b.
UpdUpdateStmts ==
    << UpdateStmt("t", <<Ident("a")>>,
                  <<BinaryExpr(IntegerLiteral(5), "Div",
                               BinaryExpr(Ident("a"), "Minus", IntegerLiteral(2)))>>,
                  NoExpr),
       UpdateStmt("t", <<Ident("b"), Ident("c")>>, <<IntegerLiteral(7), IntegerLiteral(1)>>,
                  NoExpr),
       UpdateStmt("t", <<Ident("a")>>, <<IntegerLiteral(3)>>,
                  Eq(OneOver(Ident("b")), IntegerLiteral(1))),
       UpdateStmt("t", <<Ident("a")>>, <<Ident("b")>>, NoExpr) >>

\* DELETE FROM t WHERE 1 / b = 1; WHERE a = 1; WHERE c.
UpdDeleteStmts ==
    << DeleteStmt("t", Eq(OneOver(Ident("b")), IntegerLiteral(1))),
       DeleteStmt("t", Eq(Ident("a"), IntegerLiteral(1))),
       DeleteStmt("t", Ident("c")) >>

UpdCreateTable ==
    /\ \E i \in 1..Len(UpdCreateStmts) : Eval(UpdCreateStmts[i])
    /\ UNCHANGED <<lex, parsed, todo>>

\* The table is grown to MaxRows rows at most.
UpdInsert ==
    /\ \E i \in 1..Len(UpdInsertStmts) :
            /\ HasTable(env, "t") => Len(env.tables["t"].Data) < MaxRows
            /\ Eval(UpdInsertStmts[i])
    /\ UNCHANGED <<lex, parsed, todo>>

UpdUpdate ==
    /\ \E i \in 1..Len(UpdUpdateStmts) : Eval(UpdUpdateStmts[i])
    /\ UNCHANGED <<lex, parsed, todo>>

UpdDelete ==
    /\ \E i \in 1..Len(UpdDeleteStmts) : Eval(UpdDeleteStmts[i])
    /\ UNCHANGED <<lex, parsed, todo>>

NextUpd ==
    \/ UpdCreateTable
    \/ UpdInsert
    \/ UpdUpdate
    \/ UpdDelete
    \/ Report

SpecUpd == Init /\ [][NextUpd]_vars

-----------------------------------------------------------------------------
(* Properties of statements that fail *)

\* C27: a statement for which EvalStmt returns an error has no partial
\* effect: every table holds exactly the rows and values it held before the
\* statement, also when an UPDATE fails on a later row or a later assignment.
C27_NoPartialEffect ==
    Failed => env = pre

\* The same for every statement but UPDATE.
C27_NoPartialEffectButUpdate ==
    (Failed /\ stmt.k # "UpdateStmt") => env = pre

\* An UPDATE that failed left the table as it was in every row it did not
\* reach, with the same number of rows and the same columns.
C27_UpdateKeepsShape ==
    (Failed /\ stmt.k = "UpdateStmt" /\ HasTable(pre, "t")) =>
        /\ Len(env.tables["t"].Data) = Len(pre.tables["t"].Data)
        /\ env.tables["t"].Columns = pre.tables["t"].Columns

-----------------------------------------------------------------------------
(* MIN and MAX return a value of the column *)

\* Projection i of the aggregate-mode SELECT being reported is a MIN or MAX
\* whose one row is there: some row of the table satisfied WHERE.
MinMaxReturned(i) == AggregateSelected /\ SomeRowSatisfies /\ IsMinMax(i)

\* C30: the value returned by MIN(expr) or MAX(expr) is one of the non-null
\* values that expr took on a row satisfying WHERE (compared as numbers); when
\* rows satisfy WHERE but expr is null on every one of them, the result is
\* null.
C30_MinMaxIsAValue ==
    stmt.k = "SelectStmt" =>
    \A i \in 1..Len(stmt.Columns) :
        MinMaxReturned(i) =>
            IF ValuesOf(i) = {} THEN IsNull(out.table.Data[1][i])
            ELSE /\ ~IsNull(out.table.Data[1][i])
                 /\ InHalves(out.table.Data[1][i]) \in {InHalves(v) : v \in ValuesOf(i)}

\* The same where expr took an Integer, and no Number, on some row satisfying
\* WHERE.
C30_MinMaxIsAnInteger ==
    stmt.k = "SelectStmt" =>
    \A i \in 1..Len(stmt.Columns) :
        (/\ MinMaxReturned(i)
         /\ ValuesOf(i) # {}
         /\ \A v \in ValuesOf(i) : v.t = "Integer") =>
            out.table.Data[1][i] \in ValuesOf(i)

\* Where expr is null on every row satisfying WHERE, MIN returns the largest
\* and MAX the smallest int64.
C30_AllNullIsSentinel ==
    stmt.k = "SelectStmt" =>
    \A i \in 1..Len(stmt.Columns) :
        (MinMaxReturned(i) /\ ValuesOf(i) = {}) =>
            out.table.Data[1][i] =
                IF upper(stmt.Columns[i].Name.Name) = "MIN" THEN IntegerValue(MaxInt64)
                ELSE IntegerValue(MinInt64)

-----------------------------------------------------------------------------
(* The lexer and the parser on every short input: the input is any text of
   MaxInput characters at most over the alphabet below, or one of the input
   texts of the batches.  A client reads the tokens one by one with Scan, as
   lexAll of the lexer's tests does, or hands the new lexer to Parse. *)

\* The longest input made of the alphabet.
MaxInput == 4

\* A letter, a letter of two bytes in UTF-8, a digit, the white space with the
\* two line-break characters, the quote, and an operator.
Alphabet == {"a", "@", "1", " ", "\n", "\r", "'", "+"}

LexTexts ==
    {String(runes) : runes \in UNION {[1..n -> Alphabet] : n \in 0..MaxInput}}
    \cup {Inputs[i] : i \in 1..Len(Inputs)}

\* lex := lexer.New(input).
InitLex ==
    /\ env = EmptyEnvironment
    /\ stmt = NoStmt
    /\ pre = EmptyEnvironment
    /\ out = NoOut
    /\ \E text \in LexTexts : lex = New(text)
    /\ parsed = NotParsed
    /\ todo = <<>>
    /\ stdout = <<>>

NextLex ==
    \/ ScanToken
    \/ ParseInput

SpecLex == InitLex /\ [][NextLex]_vars

\* The same client with the condition that it goes on: it calls Scan again
\* until Scan has returned false, if it did not call Parse.  Its texts are
\* shorter and without line breaks.
MaxLiveInput == 3
LiveAlphabet == Alphabet \ {"\n", "\r"}
LiveTexts ==
    {String(runes) : runes \in UNION {[1..n -> LiveAlphabet] : n \in 0..MaxLiveInput}}
    \cup {"select a from t;", "delete from t; select 1 + a, 'a' from t;"}

InitLexLive ==
    /\ env = EmptyEnvironment
    /\ stmt = NoStmt
    /\ pre = EmptyEnvironment
    /\ out = NoOut
    /\ \E text \in LiveTexts : lex = New(text)
    /\ parsed = NotParsed
    /\ todo = <<>>
    /\ stdout = <<>>

SpecLexLive == InitLexLive /\ [][NextLex]_vars /\ WF_vars(NextLex)

-----------------------------------------------------------------------------
(* Properties of the lexer *)

\* The lexer is in the error state: a Scan has failed with a lex error.
InErrorState == lex.err # NoError

\* C22: the lexer's error is sticky.  Once a Scan has failed with a lex
\* error, every later Scan returns false and changes nothing (offset, line,
\* current token and error stay as they were), so that Err returns that same
\* error from then on.
C22_StickyError ==
    /\ [](InErrorState => Scan(lex) = [lex |-> lex, ok |-> FALSE])
    /\ [][InErrorState => (lex' = lex /\ lex'.err = lex.err)]_vars

\* A Scan failed on a character after white space, which the lexer skipped
\* before it found the error: the offset is past the start of the input.
C22_Witness ==
    /\ InErrorState /\ parsed = NotParsed
    /\ lex.pos > 0
    /\ lex.tok.Kind = "Invalid"
    /\ ~Scan(lex).ok

\* The current token is one that a successful Scan returned.
HasToken == lex.tok.Kind # "Invalid"

\* C23: the tokens returned by successive successful Scan calls carry (line,
\* column) positions that never decrease in lexicographic order, with line >=
\* 1 and column >= 0, also across white space with LF, CRLF or lone CR line
\* breaks and across string literals of several lines.
C23_PositionsNeverDecrease ==
    /\ [](HasToken => (lex.tok.Pos.Line >= 1 /\ lex.tok.Pos.Column >= 0))
    /\ [][(HasToken /\ HasToken' /\ lex' # lex) => ~Before(lex'.tok.Pos, lex.tok.Pos)]_vars

\* A token was returned on the third line of an input whose line breaks are
\* a CRLF and a lone CR or LF, or lie in a string literal.
C23_Witness ==
    /\ HasToken /\ parsed = NotParsed
    /\ lex.tok.Pos.Line = 3 /\ lex.tok.Pos.Column = 0
    /\ \E i \in 1..Len(lex.input) : lex.input[i] = "\r"

\* The current token is an identifier or a keyword.
IsWordToken ==
    /\ HasToken
    /\ lex.tok.Kind \in {"Ident"} \cup {sqlKeywords[w] : w \in DOMAIN sqlKeywords}

\* The offset where the current token starts: its column on its line.
TokenStart == lex.linePos + lex.tok.Pos.Column

\* The offset one past the last character of the word that starts at offset
\* start: the characters from start up to it may all appear in an identifier,
\* and the one at it, if any, may not.
OnePastWord(start) ==
    CHOOSE j \in (start + 1)..Len(lex.input) :
        /\ \A k \in start..(j - 1) : isIdentRune(At(lex, k))
        /\ j < Len(lex.input) => ~isIdentRune(At(lex, j))

\* C29: after Scan returns an identifier or keyword token, the lexer's offset
\* is exactly one past the last character of that word, for every word,
\* identifiers with non-ASCII letters included.
C29_OffsetAfterWord ==
    IsWordToken => lex.pos = OnePastWord(TokenStart)

\* The same for the words whose letters are all of one byte in UTF-8.
C29_OffsetAfterAsciiWord ==
    (/\ IsWordToken
     /\ \A k \in TokenStart..(OnePastWord(TokenStart) - 1) : RuneLen(At(lex, k)) = 1) =>
        lex.pos = OnePastWord(TokenStart)

\* What the code does: the offset moves by the number of bytes of the word.
C29_OffsetMovesByBytes ==
    IsWordToken =>
        lex.pos = TokenStart
                  + ByteLen(SubSeq(lex.input, TokenStart + 1, OnePastWord(TokenStart)))

\* The tokens that successive calls of Scan return from lexer l on, until Scan
\* returns false, n calls at most: [tokens, lex], lex being the lexer as the
\* last call left it.
RECURSIVE ScanAll(_, _)
ScanAll(l, n) ==
    IF n = 0 THEN [tokens |-> <<>>, lex |-> l]
    ELSE LET s == Scan(l)
         IN  IF ~s.ok THEN [tokens |-> <<>>, lex |-> s.lex]
             ELSE LET rest == ScanAll(s.lex, n - 1)
                  IN  [tokens |-> <<s.lex.tok>> \o rest.tokens, lex |-> rest.lex]

\* lexAll: the tokens of the text and the lexer at the end.
LexAll(runes) == ScanAll(New(String(runes)), Len(runes) + 1)

\* The text with every CRLF replaced by LF.
RECURSIVE WithLF(_)
WithLF(runes) ==
    IF Len(runes) = 0 THEN <<>>
    ELSE IF Len(runes) >= 2 /\ runes[1] = "\r" /\ runes[2] = "\n"
    THEN <<"\n">> \o WithLF(SubSeq(runes, 3, Len(runes)))
    ELSE <<runes[1]>> \o WithLF(Tail(runes))

\* Scan has returned false for the input: the client has read every token.
ScanReturnedFalse == parsed = NotParsed /\ ~Fresh /\ ~HasToken

\* The input has CRLF line endings: it has a CR, and every CR of it is followed
\* by an LF.
HasCRLF ==
    /\ \E i \in 1..Len(lex.input) : lex.input[i] = "\r"
    /\ \A i \in 1..Len(lex.input) :
            lex.input[i] = "\r" => (i < Len(lex.input) /\ lex.input[i + 1] = "\n")

\* The two token sequences have the same kinds, literal texts and lines.
SameTokens(ts, us) ==
    /\ Len(ts) = Len(us)
    /\ \A i \in 1..Len(ts) :
            /\ ts[i].Kind = us[i].Kind
            /\ ts[i].Lit = us[i].Lit
            /\ ts[i].Pos.Line = us[i].Pos.Line

\* C24: an input with CRLF line endings tokenizes identically to the same
\* input with LF line endings: same token kinds, same literal texts and same
\* line numbers (and the same line at the end, an error in both or in
\* neither).  A quoted string that spans a CRLF yields a literal in which the
\* break is a single LF, and the line counter advances by one for it.
C24_CRLFAsLF ==
    (ScanReturnedFalse /\ HasCRLF) =>
        LET crlf == LexAll(lex.input)
            lf == LexAll(WithLF(lex.input))
        IN  /\ crlf.lex.pos = lex.pos /\ crlf.lex.line = lex.line /\ crlf.lex.err = lex.err
            /\ SameTokens(crlf.tokens, lf.tokens)
            /\ crlf.lex.line = lf.lex.line
            /\ (crlf.lex.err = NoError) = (lf.lex.err = NoError)

\* The same for the inputs without a quote, where every CRLF is between
\* tokens, and without a letter of two bytes, after which the offset is one
\* rune too far (C29).
C24_CRLFAsLFBetweenTokens ==
    (/\ ScanReturnedFalse /\ HasCRLF
     /\ \A i \in 1..Len(lex.input) : lex.input[i] # "'" /\ RuneLen(lex.input[i]) = 1) =>
        LET crlf == LexAll(lex.input)
            lf == LexAll(WithLF(lex.input))
        IN  /\ crlf.lex.pos = lex.pos /\ crlf.lex.line = lex.line /\ crlf.lex.err = lex.err
            /\ SameTokens(crlf.tokens, lf.tokens)
            /\ crlf.lex.line = lf.lex.line
            /\ (crlf.lex.err = NoError) = (lf.lex.err = NoError)

\* What the code does for the string literal with nothing but a CRLF in it:
\* the literal keeps the CR and the LF, and the line counter advances by two.
C24_CRLFInStringKept ==
    (ScanReturnedFalse /\ lex.input = <<"'", "\r", "\n", "'">>) =>
        /\ LexAll(lex.input).tokens = <<Token("StringLiteral", Pos(1, 0), "\r\n")>>
        /\ lex.line = 3
        /\ LexAll(<<"'", "\n", "'">>).tokens = <<Token("StringLiteral", Pos(1, 0), "\n")>>
        /\ LexAll(<<"'", "\n", "'">>).lex.line = 2

\* ---------------------------------------------------------------------------
\* C26.  Termination of the lexer and of the parser.
\* ---------------------------------------------------------------------------

\* C26: lexing and parsing terminate on every finite input.  Each successful
\* Scan moves the lexer's offset strictly forward; lexAll takes at most
\* len(input) tokens from an input before Scan returns false; Parse returns,
\* with an error or with statements, no more of them than the input has
\* tokens, and the lexer at its end; and the client that reads the input, token
\* by token or with Parse, comes to its end.
C26_Terminates ==
    /\ [][(parsed' = NotParsed /\ Scan(lex).ok) => lex'.pos > lex.pos]_vars
    /\ [](Fresh =>
            \A all \in {LexAll(lex.input)}, r \in {Parse(lex)} :
                /\ Len(all.tokens) <= Len(lex.input) /\ ~Scan(all.lex).ok
                /\ r.fault = Ok
                /\ r.err = NoError =>
                      /\ r.lex.tok.Kind = "Invalid"
                      /\ Len(r.nodes) <= Len(all.tokens))
    /\ <>(Parsed \/ ScanReturnedFalse)

\* An input of three runes or more, each a token of its own, read to the end.
C26_Witness ==
    /\ ScanReturnedFalse /\ lex.err = NoError
    /\ Len(lex.input) >= 3
    /\ Len(LexAll(lex.input).tokens) = Len(lex.input)

\* The parts of C26 that are about one call, for the longer texts of SpecLex:
\* a successful Scan moves the offset strictly forward, lexAll takes at most
\* len(input) tokens, and Parse returns.
C26_EachCallReturns ==
    /\ [][(parsed' = NotParsed /\ Scan(lex).ok) => lex'.pos > lex.pos]_vars
    /\ [](Fresh =>
            \A all \in {LexAll(lex.input)}, r \in {Parse(lex)} :
                /\ Len(all.tokens) <= Len(lex.input) /\ ~Scan(all.lex).ok
                /\ r.fault = Ok
                /\ r.err = NoError => Len(r.nodes) <= Len(all.tokens))

====
